---------------------------- MODULE Spec2Model ----------------------------
(***************************************************************************)
(* A model of the EV charging optimizer.                                   *)
(*                                                                         *)
(*   - planner.py: calculate_load_balancing, get_calendar_data,            *)
(*     get_departure_time and generate_charging_plan, as operators that    *)
(*     compute what the code computes;                                     *)
(*   - coordinator.py: _apply_charger_control, the update interval with    *)
(*     the virtual state of charge, the settings API and the control       *)
(*     cycle on the event loop, as actions;                                *)
(*   - session_manager.py: the SessionManager, as actions.                 *)
(*                                                                         *)
(* Units.  Times are whole minutes counted from midnight of the day of     *)
(* `now` (so tomorrow 00:00 is 1440).  Prices and price limits are in      *)
(* hundredths of the currency unit.  Currents are in tenths of an ampere   *)
(* where the code handles fractions (load balancing) and whole amperes     *)
(* after math.floor.  Overload prevention minutes are counted in half      *)
(* minutes (one 30 second control cycle).  The code's float arithmetic is  *)
(* modelled by exact rational arithmetic on integers.                      *)
(***************************************************************************)
EXTENDS Integers, Sequences, FiniteSets, TLC

VARIABLES
    \* ---- generate_charging_plan: arguments and result
    data,                         \* sensor data merged with the user settings
    config_settings,              \* static configuration
    manual_override,              \* manual override flag
    now,                          \* the clock, minutes since today's midnight
    overload_prevention_minutes,  \* in half minutes
    plan,                         \* the plan returned by the last call
    calc,                         \* the locals of the last call at its return
    plan_pc,                      \* "idle" before the call, "planned" after it
    \* ---- calculate_load_balancing: arguments and result
    lb_data,
    lb_max_fuse,
    lb_available,
    lb_pc,
    \* ---- coordinator: actuation state
    ctl,
    \* ---- SessionManager
    sm,
    \* ---- coordinator: settings and the control cycle in flight
    coord,
    \* ---- coordinator: the real-time listener of the meter sensors
    rt

vars == <<data, config_settings, manual_override, now,
          overload_prevention_minutes, plan, calc, plan_pc,
          lb_data, lb_max_fuse, lb_available, lb_pc, ctl, sm, coord, rt>>

plan_vars == <<data, config_settings, manual_override, now,
               overload_prevention_minutes, plan, calc, plan_pc>>
lb_vars == <<lb_data, lb_max_fuse, lb_available, lb_pc>>
aux_vars == <<sm, coord, rt>>

-----------------------------------------------------------------------------
(* Python's None, for values that are otherwise natural numbers. *)
NoneVal == -1

Max(a, b) == IF a >= b THEN a ELSE b
Min(a, b) == IF a <= b THEN a ELSE b

(* math.ceil(n / d) for n >= 0, d > 0. *)
Ceil(n, d) == (n + d - 1) \div d

(* max / min of a non-empty set of integers. *)
SetMax(S) == CHOOSE x \in S : \A y \in S : y <= x
SetMin(S) == CHOOSE x \in S : \A y \in S : x <= y

(* Python truthiness of data.get("car_plugged"): True, False or missing. *)
Truthy(v) == v = "true"

DayMinutes == 1440


-----------------------------------------------------------------------------
(***************************************************************************)
(* planner.py                                                              *)
(***************************************************************************)

(* data.get(key, default): a missing key is NoneVal. *)
GetOr(v, default) == IF v = NoneVal THEN default ELSE v

(* Units of the load balancer's result per tenth of an ampere. *)
LBScale == 60

(* Faulty variant: the limiter value is never used for the charger share. *)
charger_current3_measured(d, ch) == 3 * ch

(* Three times the charger current of a phase: the measured current ch,   *)
(* or a third of the limiter value when no phase measures any current and  *)
(* the limiter value is positive.                                          *)
charger_current3(d, ch) ==
    LET no_ch    == d.ch_l1 = 0 /\ d.ch_l2 = 0 /\ d.ch_l3 = 0
        fallback == no_ch /\ d.zap_limit_value > 0
    IN  IF fallback THEN d.zap_limit_value ELSE 3 * ch

(* calculate_load_balancing.  The currents of d (p1_l1..3, ch_l1..3,      *)
(* zap_limit_value) and max_fuse are in tenths of an ampere.  The result   *)
(* is in units of 1/600 A (LBScale per tenth), which keeps the one-third   *)
(* split of the limiter value and the 5% buffer exact.                     *)
available_current(d, max_fuse) ==
    LET ch3_l1    == charger_current3(d, d.ch_l1)
        ch3_l2    == charger_current3(d, d.ch_l2)
        ch3_l3    == charger_current3(d, d.ch_l3)
        house3_l1 == Max(0, 3 * d.p1_l1 - ch3_l1)
        house3_l2 == Max(0, 3 * d.p1_l2 - ch3_l2)
        house3_l3 == Max(0, 3 * d.p1_l3 - ch3_l3)
        max_house3 == Max(house3_l1, Max(house3_l2, house3_l3))
        \* buffer = max(1.0, max_fuse * 0.05), times 60 (tenths, thirds, 1/20)
        buffer60  == Max(600, 3 * max_fuse)
        available60 == LBScale * max_fuse - 20 * max_house3 - buffer60
        capped60  == Min(available60, LBScale * max_fuse)
    IN  capped60

(* Faulty variant: the result without the clamp at 0. *)
calculate_load_balancing_unclamped(d, max_fuse) == available_current(d, max_fuse)

(* return max(0.0, available) *)
calculate_load_balancing(d, max_fuse) == Max(0, available_current(d, max_fuse))

(* Faulty variant: every array is taken for hourly prices. *)
interval_min_hourly(price_list) == 60

(* The slot interval of one raw price array: 60 minutes up to 25 entries, *)
(* 15 minutes above.                                                       *)
interval_min(price_list) == IF Len(price_list) <= 25 THEN 60 ELSE 15

(* Faulty variant: a slot that has started is dropped. *)
slot_ended_when_started(s, now_) == s.start < now_

(* if start_dt + timedelta(minutes=interval_min) < now: continue *)
slot_ended(s, now_) == s.end < now_

(* parse_price_list: one slot per entry, anchored at midnight of date_ref *)
(* (minutes), slots that ended before now dropped.                         *)
parse_price_list(price_list, date_ref, now_) ==
    IF price_list = <<>> THEN <<>>
    ELSE LET iv  == interval_min(price_list)
             all == [i \in 1..Len(price_list) |->
                        [start |-> date_ref + (i - 1) * iv,
                         end   |-> date_ref + (i - 1) * iv + iv,
                         price |-> price_list[i]]]
         IN  SelectSeq(all, LAMBDA s : ~slot_ended(s, now_))

(* sorted(events, key=start): stable insertion by start. *)
RECURSIVE sorted_events(_)
sorted_events(events) ==
    IF events = <<>> THEN <<>>
    ELSE LET init == sorted_events(SubSeq(events, 1, Len(events) - 1))
             e    == events[Len(events)]
             k    == Cardinality({i \in 1..Len(init) : init[i].start <= e.start})
         IN  SubSeq(init, 1, k) \o <<e>> \o SubSeq(init, k + 1, Len(init))

(* The loop of get_calendar_data over the sorted events, from index i.    *)
(* An event whose start cannot be parsed has start = NoneVal; pct is the   *)
(* number the regular expression (\d+)\s*% finds in the event text, or     *)
(* NoneVal when it finds none.                                             *)
RECURSIVE calendar_scan(_, _, _)
calendar_scan(evs, i, now_) ==
    IF i > Len(evs) THEN [time |-> NoneVal, soc |-> NoneVal]
    ELSE LET e == evs[i] IN
         IF e.start = NoneVal THEN calendar_scan(evs, i + 1, now_)
         ELSE IF e.start < now_ THEN calendar_scan(evs, i + 1, now_)
         ELSE IF e.start >= 2 * DayMinutes
              THEN [time |-> NoneVal, soc |-> NoneVal]
         ELSE [time |-> e.start,
               soc  |-> IF e.pct # NoneVal /\ 10 <= e.pct /\ e.pct <= 100
                        THEN e.pct ELSE NoneVal]

get_calendar_data(events, now_) ==
    IF events = <<>> THEN [time |-> NoneVal, soc |-> NoneVal]
    ELSE calendar_scan(sorted_events(events), 1, now_)

(* get_departure_time: the calendar event's start, else the departure     *)
(* override, else the departure time (default 07:00), rolled to tomorrow   *)
(* when already past.                                                      *)
get_departure_time(d, now_, calendar_events) ==
    LET cal == IF calendar_events # <<>>
               THEN get_calendar_data(calendar_events, now_)
               ELSE [time |-> NoneVal, soc |-> NoneVal]
        time_input == IF d.departure_override # NoneVal
                      THEN d.departure_override
                      ELSE GetOr(d.departure_time, 420)
    IN  IF cal.time # NoneVal THEN cal.time
        ELSE IF time_input < now_ THEN time_input + DayMinutes
        ELSE time_input


(* sorted(calc_window, key=price).  Python's sort is stable, so the       *)
(* result is the slots of the lowest price in their original order, then   *)
(* those of the next price, and so on.                                     *)
RECURSIVE sorted_from(_, _)
sorted_from(w, price_set) ==
    IF price_set = {} THEN <<>>
    ELSE LET p == SetMin(price_set)
         IN  SelectSeq(w, LAMBDA s : s.price = p) \o
             sorted_from(w, price_set \ {p})

sorted_window(w) == sorted_from(w, {w[i].price : i \in 1..Len(w)})

(* sorted_window[:slots_needed] *)
select_cheapest(calc_window, slots_needed) ==
    SubSeq(sorted_window(calc_window), 1, Min(slots_needed, Len(calc_window)))

(* The maintenance selection: every window slot priced <= price_limit_2. *)
select_maintenance(calc_window, price_limit_high) ==
    SelectSeq(calc_window, LAMBDA s : s.price <= price_limit_high)

(* Faulty variant: any window slot covering now counts, selected or not. *)
covers_now_any_slot(calc_window, selected_start_times, now_) ==
    \E i \in 1..Len(calc_window) :
        /\ calc_window[i].start <= now_
        /\ now_ < calc_window[i].end

(* The loop that sets should_charge_now: some window slot whose start is  *)
(* selected covers now.                                                    *)
covers_now(calc_window, selected_start_times, now_) ==
    \E i \in 1..Len(calc_window) :
        /\ calc_window[i].start \in selected_start_times
        /\ calc_window[i].start <= now_
        /\ now_ < calc_window[i].end

(* Faulty variant: the plug state is not looked at. *)
unplugged_guard_ignored(d, should_charge) == should_charge

(* if not data.get("car_plugged"): plan["should_charge_now"] = False *)
unplugged_guard(d, should_charge) ==
    IF ~Truthy(d.car_plugged) THEN FALSE ELSE should_charge

(* Faulty variant: the opportunistic target replaces a higher base target. *)
opportunistic_target_replacing(d, final_target, min_price_in_window) ==
    IF min_price_in_window <= GetOr(d.price_limit_1, 50)
    THEN GetOr(d.target_soc_1, 100)
    ELSE IF min_price_in_window <= GetOr(d.price_limit_2, 150)
         THEN GetOr(d.target_soc_2, 80)
         ELSE final_target

(* The opportunistic levels, lines 283-296. *)
opportunistic_target(d, final_target, min_price_in_window) ==
    LET limit_1  == GetOr(d.price_limit_1, 50)
        target_1 == GetOr(d.target_soc_1, 100)
        limit_2  == GetOr(d.price_limit_2, 150)
        target_2 == GetOr(d.target_soc_2, 80)
    IN  IF min_price_in_window <= limit_1 THEN Max(final_target, target_1)
        ELSE IF min_price_in_window <= limit_2 THEN Max(final_target, target_2)
        ELSE final_target

(* Target resolution before the guaranteed minimum is applied: manual     *)
(* override, calendar target, opportunistic levels (only when the price    *)
(* horizon covers the departure), base target.                             *)
resolved_target(d, manual, cal_soc, covers, calc_window) ==
    LET base    == GetOr(d.target_soc, 80)
        min_p   == SetMin({calc_window[i].price : i \in 1..Len(calc_window)})
        final   == IF manual THEN GetOr(d.target_soc_override, 80)
                   ELSE IF cal_soc # NoneVal THEN cal_soc
                   ELSE IF covers THEN opportunistic_target(d, base, min_p)
                   ELSE base
    IN  final

(* Faulty variant: the guaranteed minimum is not applied. *)
resolve_target_without_minimum(d, manual, cal_soc, covers, calc_window) ==
    resolved_target(d, manual, cal_soc, covers, calc_window)

(* final_target = max(final_target, min_guaranteed) *)
resolve_target(d, manual, cal_soc, covers, calc_window) ==
    Max(resolved_target(d, manual, cal_soc, covers, calc_window),
        GetOr(d.min_guaranteed_soc, 20))

(* Faulty variant: the charger loss is left out. *)
hours_needed_without_loss(soc_needed, cfg) ==
    [num |-> soc_needed * cfg.car_capacity * 100,
     den |-> 100 * Min(69 * cfg.max_fuse, 1100)]

(* hours_needed as the fraction num / den (hours):                        *)
(*   kwh_needed = soc_needed / 100 * car_capacity                          *)
(*   kwh_to_pull = kwh_needed / (1 - charger_loss / 100)                   *)
(*   est_power_kw = min(3 * 230 * max_fuse / 1000, 11)                     *)
(* so hours_needed = soc_needed * car_capacity * 1000 /                    *)
(* ((100 - charger_loss) * min(690 * max_fuse, 11000)), here with          *)
(* numerator and denominator divided by 10.                                *)
hours_needed(soc_needed, cfg) ==
    [num |-> soc_needed * cfg.car_capacity * 100,
     den |-> (100 - cfg.charger_loss) * Min(69 * cfg.max_fuse, 1100)]

(* Faulty variant: the overload slots rounded down instead of up. *)
extra_slots_needed_rounded_down(raw_today, m) ==
    m \div (2 * (IF Len(raw_today) > 25 THEN 15 ELSE 60))

(* extra_slots_needed, lines 314-319; m in half minutes. *)
extra_slots_needed(raw_today, m) ==
    IF m > 0
    THEN Ceil(m, 2 * (IF Len(raw_today) > 25 THEN 15 ELSE 60))
    ELSE 0

(* slots_needed, lines 409-420. *)
slots_needed(hn, calc_window, extra) ==
    LET dur == calc_window[1].end - calc_window[1].start
        slot_duration_min == IF dur <= 0 THEN 60 ELSE dur
    IN  Ceil(hn.num * 60, hn.den * slot_duration_min) + extra

(* Faulty variant: the overload minutes are left out of the latest start. *)
before_latest_start_without_overload(now_, dept_dt, hn, m) ==
    2 * hn.den * now_ < 2 * hn.den * dept_dt - 120 * hn.num

(* now < dept_dt - timedelta(hours = hours_needed + minutes / 60) *)
before_latest_start(now_, dept_dt, hn, m) ==
    2 * hn.den * now_ < 2 * hn.den * dept_dt - 120 * hn.num - m * hn.den

(* The charging_schedule: every retained price slot with its active flag, *)
(* then one zero-length inactive entry at the end of the last slot.        *)
schedule_of(prices, selected_start_times) ==
    LET n == Len(prices)
    IN  [i \in 1..(IF n = 0 THEN 0 ELSE n + 1) |->
            IF i <= n
            THEN [start  |-> prices[i].start,
                  end    |-> prices[i].end,
                  price  |-> prices[i].price,
                  active |-> prices[i].start \in selected_start_times]
            ELSE [start  |-> prices[n].end,
                  end    |-> prices[n].end,
                  price  |-> prices[n].price,
                  active |-> FALSE]]


(* The locals of generate_charging_plan before anything is computed. *)
NoCalc ==
    [path |-> "none", prices |-> <<>>, dept_dt |-> NoneVal,
     calc_window |-> <<>>, last_price_end |-> NoneVal,
     price_horizon_covers_departure |-> FALSE,
     final_target |-> NoneVal, current_soc |-> NoneVal,
     hours_needed |-> [num |-> 0, den |-> 1],
     extra_slots_needed |-> 0, slots_needed |-> 0,
     selected_slots |-> <<>>]

(* The plan dictionary as first built, lines 161-168.  Keys set only on   *)
(* some paths (departure_time, session_end_time, amps) are NoneVal until   *)
(* set.                                                                    *)
initial_plan(d, m) ==
    [should_charge_now |-> FALSE,
     scheduled_start |-> NoneVal,
     planned_target_soc |-> GetOr(d.target_soc, 80),
     charging_schedule |-> <<>>,
     charging_summary |-> "Not calculated",
     overload_prevention_minutes |-> m,
     departure_time |-> NoneVal,
     session_end_time |-> NoneVal,
     amps |-> NoneVal]

(* Faulty variant: a missing price sensor is reported as an error too. *)
no_price_summary_always_error(cfg) ==
    "Error: Price sensor configured but no data received."

(* The summary of the return taken when today's price array is empty. *)
no_price_summary(cfg) ==
    IF ~cfg.has_price_sensor
    THEN "No Price Sensor. Load Balancing Mode."
    ELSE "Error: Price sensor configured but no data received."

(* The four early returns that charge whenever the car is plugged in. *)
charge_if_plugged(d, p, summary) ==
    [p EXCEPT !.should_charge_now = unplugged_guard(d, TRUE),
              !.charging_summary = summary]

(* The common tail of generate_charging_plan, lines 532-573. *)
finish_plan(d, cfg, p, c, should_charge, now_) ==
    LET starts == {c.selected_slots[i].start : i \in 1..Len(c.selected_slots)}
        future_starts ==
            {c.calc_window[i].start : i \in
                {j \in 1..Len(c.calc_window) :
                    /\ c.calc_window[j].start > now_
                    /\ c.calc_window[j].start \in starts}}
        should == unplugged_guard(d, should_charge)
    IN  [p EXCEPT
            !.charging_schedule = schedule_of(c.prices, starts),
            !.scheduled_start = IF future_starts # {}
                                THEN SetMin(future_starts) ELSE NoneVal,
            !.should_charge_now = should,
            !.amps = IF should THEN cfg.max_fuse ELSE NoneVal]

(* Lines 268-573: the window is not empty. *)
plan_window(d, cfg, manual, now_, m, p0, c0) ==
    LET cal == get_calendar_data(d.calendar_events, now_)
        final_target == resolve_target(d, manual, cal.soc,
                            c0.price_horizon_covers_departure, c0.calc_window)
        current_soc == GetOr(d.car_soc, 0)
        price_limit_high == GetOr(d.price_limit_2, 150)
        extra == extra_slots_needed(d.price_data.today, m)
        p1 == [p0 EXCEPT !.planned_target_soc = final_target]
        c1 == [c0 EXCEPT !.final_target = final_target,
                         !.current_soc = current_soc,
                         !.extra_slots_needed = extra]
    IN
    IF current_soc >= final_target
    THEN \* maintenance mode, lines 321-341
         LET sel == select_maintenance(c1.calc_window, price_limit_high)
             starts == {sel[i].start : i \in 1..Len(sel)}
             c2 == [c1 EXCEPT !.path = "maintenance", !.selected_slots = sel]
             p2 == [p1 EXCEPT !.charging_summary =
                        "Target reached. Maintenance mode active."]
             should == unplugged_guard(d,
                          covers_now(c1.calc_window, starts, now_))
         IN  [plan |-> finish_plan(d, cfg, p2, c2, should, now_), calc |-> c2]
    ELSE LET hn == hours_needed(final_target - current_soc, cfg) IN
         IF /\ ~c1.price_horizon_covers_departure
            /\ before_latest_start(now_, c1.dept_dt, hn, m)
         THEN \* waiting for more price data, lines 362-407
              [plan |-> [p1 EXCEPT
                    !.should_charge_now = unplugged_guard(d, FALSE),
                    !.charging_summary =
                        "Waiting for additional price data before planning.",
                    !.charging_schedule = schedule_of(c1.prices, {})],
               calc |-> [c1 EXCEPT !.path = "waiting", !.hours_needed = hn]]
         ELSE \* slot selection, lines 409-530
              LET needed == slots_needed(hn, c1.calc_window, extra)
                  sel == select_cheapest(c1.calc_window, needed)
                  starts == {sel[i].start : i \in 1..Len(sel)}
                  c2 == [c1 EXCEPT !.path = "selection",
                                   !.hours_needed = hn,
                                   !.slots_needed = needed,
                                   !.selected_slots = sel]
                  p2 == [p1 EXCEPT
                           !.session_end_time =
                               IF sel # <<>>
                               THEN SetMax({sel[i].end : i \in 1..Len(sel)})
                               ELSE NoneVal,
                           !.charging_summary =
                               IF sel # <<>> THEN "Departure / Target / Cost"
                               ELSE "Not calculated"]
                  should == covers_now(c1.calc_window, starts, now_)
              IN  [plan |-> finish_plan(d, cfg, p2, c2, should, now_),
                   calc |-> c2]

(* generate_charging_plan(data, config_settings, manual_override, now,    *)
(* overload_prevention_minutes): the returned plan, with the locals.       *)
generate_charging_plan(d, cfg, manual, now_, m) ==
    LET p0 == initial_plan(d, m)
        raw_today == d.price_data.today
        raw_tomorrow == d.price_data.tomorrow
    IN
    IF ~d.smart_charging_active
    THEN [plan |-> charge_if_plugged(d, p0,
                      "Smart charging disabled. Charging immediately."),
          calc |-> [NoCalc EXCEPT !.path = "disabled"]]
    ELSE IF raw_today = <<>>
    THEN [plan |-> charge_if_plugged(d, p0,
                      no_price_summary(cfg)),
          calc |-> [NoCalc EXCEPT !.path = "no_price_data"]]
    ELSE
    LET prices == parse_price_list(raw_today, 0, now_) \o
                  (IF d.price_data.tomorrow_valid \/ raw_tomorrow # <<>>
                   THEN parse_price_list(raw_tomorrow, DayMinutes, now_)
                   ELSE <<>>)
    IN
    IF prices = <<>>
    THEN [plan |-> charge_if_plugged(d, p0, "No future price data found."),
          calc |-> [NoCalc EXCEPT !.path = "no_future_prices"]]
    ELSE
    LET dept_dt == get_departure_time(d, now_, d.calendar_events)
        calc_window == SelectSeq(prices, LAMBDA s : s.start < dept_dt)
        last_price_end == SetMax({prices[i].end : i \in 1..Len(prices)})
        c0 == [NoCalc EXCEPT
                 !.prices = prices, !.dept_dt = dept_dt,
                 !.calc_window = calc_window,
                 !.last_price_end = last_price_end,
                 !.price_horizon_covers_departure = (last_price_end >= dept_dt)]
        p1 == [p0 EXCEPT !.departure_time = dept_dt]
    IN
    IF calc_window = <<>>
    THEN [plan |-> charge_if_plugged(d, p1, "Departure passed. Charging."),
          calc |-> [c0 EXCEPT !.path = "departure_passed"]]
    ELSE plan_window(d, cfg, manual, now_, m, p1, c0)


-----------------------------------------------------------------------------
(***************************************************************************)
(* Inputs of generate_charging_plan                                        *)
(***************************************************************************)

(* Prices are in hundredths: 10 is below price_limit_1, 140 between the    *)
(* two limits, 200 above price_limit_2 (default limits 0.50 and 1.50).     *)
(* A raw price array of n entries repeats a pattern of three prices. *)
Patterns == {<<200, 200, 200>>, <<10, 200, 140>>, <<200, 140, 10>>,
             <<140, 140, 200>>, <<200, 10, 10>>}

price_array(pat, n, shift) ==
    [i \in 1..n |-> pat[((i - 1 + shift) % Len(pat)) + 1]]

(* Lengths of today's and tomorrow's arrays: hourly (24, 25 on the day    *)
(* daylight saving ends), quarter-hourly (96), a feed that stops early     *)
(* (20), none (0).                                                         *)
LenPairs == {<<24, 0>>, <<24, 24>>, <<25, 24>>, <<96, 0>>, <<96, 96>>,
             <<24, 96>>, <<20, 0>>}

price_data_of(pat, lens) ==
    [today |-> price_array(pat, lens[1], 0),
     tomorrow |-> price_array(pat, lens[2], 1),
     tomorrow_valid |-> lens[2] > 0]

NoPriceData == [today |-> <<>>, tomorrow |-> <<>>, tomorrow_valid |-> FALSE]

NowChoices == {0, 1320, 1337}
DepartureChoices == {0, 60, 1380}
SocChoices == {NoneVal, 40, 79, 100}
PluggedChoices == {"true", "false", "none"}
(* Overload prevention minutes, in half minutes. *)
MaxOverload == 120
OverloadChoices == {0, 1, MaxOverload}
FuseChoices == {10, 20}

Event(start, pct) == [start |-> start, pct |-> pct]
CalendarChoices == {<<>>,
                    <<Event(1410, 10)>>,
                    <<Event(1500, NoneVal)>>,
                    <<Event(NoneVal, 90), Event(3000, 70), Event(1380, 150)>>,
                    <<Event(1430, 60), Event(1400, 90), Event(1200, 70)>>}

(* The user settings at the defaults of number.py. *)
DefaultData ==
    [car_plugged |-> "true", car_soc |-> 40,
     smart_charging_active |-> TRUE,
     price_data |-> NoPriceData,
     calendar_events |-> <<>>,
     target_soc |-> 80, target_soc_override |-> 80,
     min_guaranteed_soc |-> 20,
     price_limit_1 |-> 50, target_soc_1 |-> 100,
     price_limit_2 |-> 150, target_soc_2 |-> 80,
     departure_time |-> 420, departure_override |-> NoneVal]

DefaultConfig ==
    [max_fuse |-> 20, charger_loss |-> 10, car_capacity |-> 64,
     has_price_sensor |-> TRUE]

(* Slot selection: prices, clock, deadline, SoC, fuse and overload        *)
(* minutes vary; the targets are the defaults.                             *)
SelectionInputs ==
    \E pat \in Patterns, lens \in LenPairs, n \in NowChoices,
       dep \in DepartureChoices, soc \in SocChoices,
       plugged \in {"true", "false"}, m \in OverloadChoices,
       fuse \in FuseChoices :
        /\ data = [DefaultData EXCEPT
                     !.price_data = price_data_of(pat, lens),
                     !.departure_time = dep, !.car_soc = soc,
                     !.car_plugged = plugged]
        /\ config_settings = [DefaultConfig EXCEPT !.max_fuse = fuse]
        /\ manual_override = FALSE
        /\ now = n
        /\ overload_prevention_minutes = m

(* Target resolution: override, calendar, targets and limits vary. *)
TargetInputs ==
    \E pat \in {<<200, 200, 200>>, <<10, 200, 140>>, <<140, 140, 200>>},
       lens \in {<<24, 0>>, <<24, 24>>},
       manual \in BOOLEAN, ovr \in {NoneVal, 50, 100},
       cal \in CalendarChoices, tgt \in {NoneVal, 50, 100},
       min_soc \in {NoneVal, 10, 50}, soc \in {40, 100},
       plugged \in {"true", "none"}, dep_ovr \in {NoneVal, 60} :
        /\ data = [DefaultData EXCEPT
                     !.price_data = price_data_of(pat, lens),
                     !.calendar_events = cal,
                     !.target_soc = tgt, !.target_soc_override = ovr,
                     !.min_guaranteed_soc = min_soc, !.car_soc = soc,
                     !.car_plugged = plugged,
                     !.departure_override = dep_ovr]
        /\ config_settings = DefaultConfig
        /\ manual_override = manual
        /\ now = 1320
        /\ overload_prevention_minutes = 0

(* The early returns: smart charging off, or no price data, with and      *)
(* without a manual override.                                              *)
EarlyInputs ==
    \E smart \in BOOLEAN, sensor \in BOOLEAN, plugged \in PluggedChoices,
       tgt \in {50, 80}, min_soc \in {20, 50}, m \in OverloadChoices,
       lens \in {<<0, 0>>, <<24, 0>>}, manual \in BOOLEAN, ovr \in {50, 100},
       cal \in {<<>>, <<Event(1410, 90)>>} :
        /\ data = [DefaultData EXCEPT
                     !.smart_charging_active = smart,
                     !.price_data = IF sensor
                                    THEN price_data_of(<<200, 10, 10>>, lens)
                                    ELSE NoPriceData,
                     !.target_soc = tgt, !.min_guaranteed_soc = min_soc,
                     !.target_soc_override = ovr,
                     !.calendar_events = cal,
                     !.car_plugged = plugged]
        /\ config_settings = [DefaultConfig EXCEPT !.has_price_sensor = sensor]
        /\ manual_override = manual
        /\ now = 1320
        /\ overload_prevention_minutes = m

NoPlan == initial_plan(DefaultData, 0)

InitPlanner ==
    /\ SelectionInputs \/ TargetInputs \/ EarlyInputs
    /\ plan = NoPlan
    /\ calc = NoCalc
    /\ plan_pc = "idle"

(* One call of generate_charging_plan on the current inputs. *)
GeneratePlan ==
    /\ plan_pc = "idle"
    /\ LET r == generate_charging_plan(data, config_settings, manual_override,
                                       now, overload_prevention_minutes)
       IN  /\ plan' = r.plan
           /\ calc' = r.calc
    /\ plan_pc' = "planned"
    /\ UNCHANGED <<data, config_settings, manual_override, now,
                   overload_prevention_minutes>>
    /\ UNCHANGED <<lb_vars, ctl, aux_vars>>

-----------------------------------------------------------------------------
(***************************************************************************)
(* coordinator.py: _apply_charger_control                                  *)
(***************************************************************************)

(* Below this many whole amperes the charger is not started. *)
MinChargeAmps == 6

(* The startup grace period of two minutes, in update intervals of 30 s:   *)
(* datetime.now() - self._startup_time < timedelta(minutes=2).             *)
GracePeriodCycles == 4

(* math.floor(data.get("max_available_current", 0)), the input in tenths. *)
safe_amps_of(d) == d.max_available_current \div 10

(* Faulty variant: no minimum current. *)
safety_cutoff_ignored(should_charge, safe_amps) == should_charge

(* if safe_amps < 6: should_charge = False *)
safety_cutoff(should_charge, safe_amps) ==
    IF safe_amps < MinChargeAmps THEN FALSE ELSE should_charge

(* The summaries that contain "Maintenance mode active". *)
MaintenanceSummaries == {"Target reached (80%). Maintenance mode active.",
                         "Target reached. Maintenance mode active."}

maintenance_active(p) == p.charging_summary \in MaintenanceSummaries

Call(service, value) == [service |-> service, value |-> value]

(* The record of a control cycle that has not run. *)
NoCycle ==
    [ran |-> FALSE,
     data |-> [should_charge_now |-> FALSE, max_available_current |-> 0,
               car_plugged |-> FALSE],
     plan |-> [charging_summary |-> "Not calculated", planned_target_soc |-> 80],
     prev_state |-> "none", prev_amps |-> -1, prev_car_limit |-> -1,
     safe_amps |-> 0, should_charge |-> FALSE, target_amps |-> 0,
     desired_state |-> "paused", calls |-> <<>>, failed |-> {},
     log |-> <<>>]

(* The virtual SoC is kept in units of 1 / SocScale percent, in which the  *)
(* energy added by a tenth of an ampere in half a minute is a whole        *)
(* number: 3 * 230 V * A / 1000 * h * (1 - loss / 100) / capacity * 100 is *)
(* 69 * (100 - loss) * A10 * t / (120000 * capacity) percent for A10       *)
(* tenths of an ampere and t half minutes.                                 *)
ChargerLoss == 10
CarCapacity == 64
SocScale == 120000 * CarCapacity

(* The record of an update interval in which the estimator has not run.   *)
(* state, amps and car_limit are the actuation state the estimator found,  *)
(* runs counts its runs in the interval, available_known and plan_known    *)
(* tell whether the data it was given held the load balancer's and the     *)
(* plan's results.                                                         *)
NoUpdate ==
    [ran |-> FALSE, soc_state |-> NoneVal, sensor_soc |-> NoneVal,
     state |-> "none", car_limit |-> -1, plug_edge |-> FALSE,
     trust_sensor_period |-> FALSE, refresh_age |-> NoneVal,
     soc_before_refresh |-> NoneVal, before |-> 0, before_sync |-> 0,
     after_sync |-> 0, after |-> 0,
     amps |-> -1, runs |-> 0, available_known |-> FALSE,
     plan_known |-> FALSE]

(* The coordinator's state after __init__: the actuation state, the        *)
(* estimator, the refresh bookkeeping.  refresh_age is the time since      *)
(* _refresh_trigger_timestamp and since_update the time since              *)
(* _last_update_time, in half minutes; refresh_age is NoneVal while the    *)
(* timestamp is None.                                                      *)
InitialControl(conf) ==
    [conf |-> conf, uptime |-> 0,
     last_applied_state |-> "none", last_applied_amps |-> -1,
     last_applied_car_limit |-> -1, was_charging_in_interval |-> FALSE,
     cycle |-> NoCycle,
     previous_plugged_state |-> FALSE,
     virtual_soc |-> 0,
     refresh_age |-> NoneVal, soc_before_refresh |-> NoneVal,
     since_update |-> 0, cycles |-> 0,
     user_settings |-> [target_soc |-> 80, smart_charging_active |-> TRUE],
     update |-> NoUpdate]

(* Faulty variant: a call counts as done whether or not it raised. *)
call_succeeded_unchecked(calls, returns) == calls # <<>>

(* A service call inside try ... except: the statements after it in the    *)
(* try block run only when it was made and returned.                       *)
call_succeeded(calls, returns) == calls # <<>> /\ returns

(* Those of the calls that raised. *)
raised(calls, returns) ==
    IF calls # <<>> /\ ~returns THEN {calls[1]} ELSE {}

(* 2. Control Car Charge Limit: the call made, if any. *)
car_limit_calls(self, target_soc, is_starting) ==
    IF target_soc # self.last_applied_car_limit \/ is_starting
    THEN IF self.conf.car_limit
         THEN <<Call("number.set_value car_limit", target_soc)>>
         ELSE IF self.conf.car_svc
              THEN <<Call("car_svc", target_soc)>>
              ELSE <<>>
    ELSE <<>>

(* Faulty variant: the start or stop command is sent in every cycle. *)
switch_calls_every_cycle(self, desired_state, on) ==
    IF self.conf.zap_switch
    THEN <<Call(IF on THEN "switch.turn_on" ELSE "switch.turn_off", NoneVal)>>
    ELSE IF (IF on THEN self.conf.zap_resume ELSE self.conf.zap_stop)
         THEN <<Call(IF on THEN "button.press zap_resume"
                           ELSE "button.press zap_stop", NoneVal)>>
         ELSE <<>>

(* A. Ensure Switch is ON / B. Turn Switch OFF: the call made, if any. *)
switch_calls(self, desired_state, on) ==
    IF desired_state # self.last_applied_state
    THEN IF self.conf.zap_switch
         THEN <<Call(IF on THEN "switch.turn_on" ELSE "switch.turn_off", NoneVal)>>
         ELSE IF (IF on THEN self.conf.zap_resume ELSE self.conf.zap_stop)
              THEN <<Call(IF on THEN "button.press zap_resume"
                                ELSE "button.press zap_stop", NoneVal)>>
              ELSE <<>>
    ELSE <<>>

(* The current limiter write of either sequence: the call made, if any. *)
limiter_calls(self, value) ==
    IF value # self.last_applied_amps /\ self.conf.zap_limit
    THEN <<Call("number.set_value zap_limit", value)>>
    ELSE <<>>

(* _apply_charger_control(data, plan) on the state self.  ok tells which   *)
(* of the service calls return (TRUE) and which raise (FALSE).             *)
apply_charger_control(self, d, p, ok) ==
    IF self.uptime < GracePeriodCycles
    THEN [self EXCEPT !.cycle = [NoCycle EXCEPT
                                   !.data = d, !.plan = p,
                                   !.prev_state = self.last_applied_state,
                                   !.prev_amps = self.last_applied_amps,
                                   !.prev_car_limit =
                                       self.last_applied_car_limit]]
    ELSE
    LET safe_amps     == safe_amps_of(d)
        cut           == safety_cutoff(d.should_charge_now, safe_amps)
        maintenance   == maintenance_active(p)
        should_charge == IF maintenance THEN TRUE ELSE cut
        target_amps   == IF maintenance THEN 0
                         ELSE IF cut THEN safe_amps ELSE 0
        desired_state == IF maintenance THEN "maintenance"
                         ELSE IF cut THEN "charging" ELSE "paused"
        target_soc    == p.planned_target_soc
        is_starting   == desired_state = "charging"
                         /\ self.last_applied_state # "charging"
        car           == car_limit_calls(self, target_soc, is_starting)
        switch        == switch_calls(self, desired_state, should_charge)
        limiter       == limiter_calls(self, IF should_charge
                                             THEN target_amps ELSE 0)
        state_changes == desired_state # self.last_applied_state
        state_set     == state_changes
                         /\ (switch = <<>> \/ call_succeeded(switch, ok.switch))
        amps_set      == call_succeeded(limiter, ok.limiter)
        car_set       == call_succeeded(car, ok.car)
        cutoff_log    == IF safe_amps < MinChargeAmps /\ d.should_charge_now
                         THEN <<"Safety Cutoff">> ELSE <<>>
        car_log       == IF car_set THEN <<"Set Car Charge Limit">> ELSE <<>>
        switch_log    == IF call_succeeded(switch, ok.switch)
                         THEN <<switch[1].service>> ELSE <<>>
        limiter_log   == IF amps_set /\ (~should_charge \/ target_amps > 0)
                         THEN <<"Set Zaptec limit">> ELSE <<>>
    IN  [self EXCEPT
           !.last_applied_car_limit = IF car_set THEN target_soc ELSE @,
           !.was_charging_in_interval =
               IF should_charge /\ target_amps > 0 THEN TRUE ELSE @,
           !.last_applied_state = IF state_set THEN desired_state ELSE @,
           !.last_applied_amps =
               IF amps_set THEN limiter[1].value ELSE @,
           !.cycle =
               [ran |-> TRUE, data |-> d, plan |-> p,
                prev_state |-> self.last_applied_state,
                prev_amps |-> self.last_applied_amps,
                prev_car_limit |-> self.last_applied_car_limit,
                safe_amps |-> safe_amps, should_charge |-> should_charge,
                target_amps |-> target_amps, desired_state |-> desired_state,
                calls |-> IF should_charge
                          THEN car \o switch \o limiter
                          ELSE car \o limiter \o switch,
                failed |-> raised(car, ok.car) \cup raised(switch, ok.switch)
                           \cup raised(limiter, ok.limiter),
                log |-> IF should_charge
                        THEN cutoff_log \o car_log \o switch_log \o limiter_log
                        ELSE cutoff_log \o car_log \o limiter_log \o switch_log]]

(* get_float of _fetch_sensor_data: 0.0 for an entity that is not          *)
(* configured, has no state, or is unavailable or unknown (NoneVal).       *)
get_float(state) == IF state = NoneVal THEN 0 ELSE state

(* _fetch_sensor_data merged with the user settings.  The three phases of  *)
(* the meter and of the charger read the same value; currents are tenths   *)
(* of an ampere, car_soc is a percentage.                                  *)
fetch_sensor_data(s, settings) ==
    [p1_l1 |-> get_float(s.p1), p1_l2 |-> get_float(s.p1),
     p1_l3 |-> get_float(s.p1),
     car_soc |-> get_float(s.car_soc),
     ch_l1 |-> get_float(s.ch), ch_l2 |-> get_float(s.ch),
     ch_l3 |-> get_float(s.ch),
     car_plugged |-> s.car_plugged,
     target_soc |-> settings.target_soc,
     smart_charging_active |-> settings.smart_charging_active]

(* _handle_plugged_event: on plug-in the estimate is set to the reading,   *)
(* on unplugging the actuation state is reset.                             *)
handle_plugged_event(self, is_plugged, d) ==
    LET plug_in == is_plugged /\ ~self.previous_plugged_state
        unplug  == ~is_plugged /\ self.previous_plugged_state
    IN  [self EXCEPT
           !.virtual_soc = IF plug_in
                           THEN (IF d.car_soc # NoneVal
                                 THEN d.car_soc * SocScale ELSE 0)
                           ELSE @,
           !.last_applied_state = IF unplug THEN "paused" ELSE @,
           !.last_applied_car_limit = IF unplug THEN -1 ELSE @,
           !.previous_plugged_state = is_plugged,
           !.update = [@ EXCEPT !.plug_edge = plug_in]]

(* The forced-refresh trust window of five minutes, in half minutes. *)
TrustWindow == 10

(* trust_sensor_period of _update_virtual_soc. *)
trust_sensor_period(self, sensor_soc) ==
    /\ self.refresh_age # NoneVal
    /\ self.refresh_age < TrustWindow
    /\ sensor_soc # NoneVal
    /\ sensor_soc # self.soc_before_refresh

(* Faulty variant: a present reading is always adopted. *)
sync_always(sensor_soc, virtual_soc, trust) == TRUE

(* The condition under which a present reading replaces the estimate. *)
sync_condition(sensor_soc, virtual_soc, trust) ==
    \/ sensor_soc * SocScale > virtual_soc
    \/ virtual_soc = 0
    \/ trust

(* 2. Estimate Logic: the estimate after t half minutes of charging. *)
estimate(self, d, virtual_soc, t) ==
    IF self.last_applied_state # "charging" THEN virtual_soc
    ELSE
    LET measured_amps == Max(d.ch_l1, Max(d.ch_l2, d.ch_l3))
        used_amps == IF measured_amps > 5 THEN measured_amps
                     ELSE 10 * self.last_applied_amps
        added == 69 * (100 - ChargerLoss) * used_amps * t
        sum == virtual_soc + added
        limit == self.last_applied_car_limit
        at_limit == IF limit > 0 /\ sum > limit * SocScale
                    THEN limit * SocScale ELSE sum
    IN  IF used_amps > 0 /\ CarCapacity > 0
        THEN Min(at_limit, 100 * SocScale)
        ELSE virtual_soc

(* _update_virtual_soc(data), t half minutes after the previous update. *)
update_virtual_soc(self, d, t) ==
    LET sensor_soc == d.car_soc
        trust == trust_sensor_period(self, sensor_soc)
        synced == IF sensor_soc # NoneVal
                     /\ sync_condition(sensor_soc, self.virtual_soc, trust)
                  THEN sensor_soc * SocScale
                  ELSE self.virtual_soc
        after == estimate(self, d, synced, t)
    IN  [self EXCEPT
           !.virtual_soc = after,
           !.update = [@ EXCEPT
                         !.ran = TRUE, !.sensor_soc = sensor_soc,
                         !.state = self.last_applied_state,
                         !.amps = self.last_applied_amps,
                         !.car_limit = self.last_applied_car_limit,
                         !.runs = @ + 1,
                         !.available_known =
                             "max_available_current" \in DOMAIN d,
                         !.plan_known = "should_charge_now" \in DOMAIN d,
                         !.trust_sensor_period = trust,
                         !.refresh_age = self.refresh_age,
                         !.soc_before_refresh = self.soc_before_refresh,
                         !.before_sync = self.virtual_soc,
                         !.after_sync = synced, !.after = after]]

(* _calculate_load_balancing of the coordinator, rounded down to tenths of *)
(* an ampere; max_fuse in tenths.                                          *)
coordinator_load_balancing(d, max_fuse) ==
    LET house_l1 == Max(0, d.p1_l1 - d.ch_l1)
        house_l2 == Max(0, d.p1_l2 - d.ch_l2)
        house_l3 == Max(0, d.p1_l3 - d.ch_l3)
        max_house_current == Max(house_l1, Max(house_l2, house_l3))
        buffer20 == Max(200, max_fuse)
        available20 == 20 * max_fuse - 20 * max_house_current - buffer20
    IN  Max(0, available20) \div 20

(* Faulty variant: the load balancer runs first and the estimator is given *)
(* its result.                                                             *)
estimate_then_balance_reversed(self, d, max_fuse) ==
    LET d6 == d @@ [max_available_current |->
                        coordinator_load_balancing(d, max_fuse)]
    IN  [self |-> update_virtual_soc(self, d6, self.since_update),
         data |-> d6]

(* Steps 5 and 6 of _async_update_data: _update_virtual_soc(data), then    *)
(* data["max_available_current"] = _calculate_load_balancing(data).        *)
estimate_then_balance(self, d, max_fuse) ==
    LET self5 == update_virtual_soc(self, d, self.since_update)
    IN  [self |-> self5,
         data |-> d @@ [max_available_current |->
                            coordinator_load_balancing(d, max_fuse)]]

(* _generate_charging_plan of a coordinator without a price sensor: the    *)
(* two returns that charge whenever the car is plugged in.                 *)
coordinator_plan(d) ==
    [should_charge_now |-> d.car_plugged,
     planned_target_soc |-> d.target_soc,
     charging_summary |->
         IF ~d.smart_charging_active
         THEN "Smart charging disabled. Charging immediately."
         ELSE "Load Balancing Mode (No Price Sensor configured)."]

(* _generate_charging_plan of a coordinator with prices in the window:     *)
(* at the target the summary reports maintenance mode, otherwise the       *)
(* schedule; should_charge_now tells whether the slot that covers now is   *)
(* selected, and is forced to False for an unplugged car.                  *)
coordinator_window_plan(car_plugged, at_target, selected, target_soc) ==
    [should_charge_now |-> IF ~car_plugged THEN FALSE ELSE selected,
     planned_target_soc |-> target_soc,
     charging_summary |->
         IF at_target
         THEN "Target reached (80%). Maintenance mode active."
         ELSE "Departure / Target / Cost"]

(* The refresh intervals and the twelve hours of the refresh at the       *)
(* target, in half minutes; a year stands for "never refreshed".           *)
RefreshIntervals ==
    [m \in {"30_min", "1_hour", "2_hours", "3_hours", "4_hours"} |->
        CASE m = "30_min" -> 60 [] m = "1_hour" -> 120 [] m = "2_hours" -> 240
          [] m = "3_hours" -> 360 [] OTHER -> 480]
TwelveHours == 1440
NeverRefreshed == 365 * 2 * DayMinutes

(* _manage_car_refresh and _trigger_car_refresh: the snapshot is taken     *)
(* before the service call, the timestamps are set after it returned.      *)
manage_car_refresh(self, d, p, soc_state, ok) ==
    LET interval_mode == self.conf.refresh_int
        delta == IF self.refresh_age = NoneVal THEN NeverRefreshed
                 ELSE self.refresh_age
        should_refresh ==
            /\ d.car_plugged
            /\ self.conf.refresh_svc
            /\ interval_mode # "never"
            /\ \/ /\ interval_mode \in DOMAIN RefreshIntervals
                  /\ delta > RefreshIntervals[interval_mode]
               \/ /\ interval_mode = "at_target"
                  /\ delta > TwelveHours
                  /\ self.virtual_soc >= p.planned_target_soc * SocScale
    IN  IF should_refresh
        THEN [self EXCEPT
                !.soc_before_refresh = get_float(soc_state),
                !.refresh_age = IF ok THEN 0 ELSE @]
        ELSE self

(* The half minutes counted since startup. *)
MaxUptime == 4

(* The time that passes between two update intervals, t half minutes. *)
time_passes(self, t) ==
    [self EXCEPT
       !.uptime = Min(MaxUptime, @ + t),
       !.since_update = t,
       !.refresh_age = IF @ = NoneVal THEN @ ELSE @ + t]

(* _async_update_data: one update interval on the sensor states s,         *)
(* followed by the t half minutes to the next interval.                    *)
async_update_data(self, s, ok, refresh_ok, t) ==
    LET d0     == fetch_sensor_data(s, self.user_settings)
        self1  == handle_plugged_event([self EXCEPT !.update.runs = 0],
                                       d0.car_plugged, d0)
        s56    == estimate_then_balance(self1, d0,
                                        10 * DefaultConfig.max_fuse)
        self2  == s56.self
        avail  == s56.data.max_available_current
        p      == coordinator_plan(d0)
        self3  == manage_car_refresh(self2, d0, p, s.car_soc, refresh_ok)
        d      == [should_charge_now |-> p.should_charge_now,
                   max_available_current |-> avail,
                   car_plugged |-> d0.car_plugged]
        self4  == apply_charger_control(
                      self3, d,
                      [charging_summary |-> p.charging_summary,
                       planned_target_soc |-> p.planned_target_soc], ok)
    IN  time_passes(
            [self4 EXCEPT
               !.cycles = @ + 1,
               !.update = [@ EXCEPT !.soc_state = s.car_soc,
                                    !.before = self.virtual_soc]], t)

(* The configured entities: a switch, a limiter and a car limit number;    *)
(* resume / stop buttons and a car service; a switch only.                 *)
ConfChoices ==
    {[zap_switch |-> TRUE, zap_resume |-> FALSE, zap_stop |-> FALSE,
      zap_limit |-> TRUE, car_limit |-> TRUE, car_svc |-> FALSE,
      refresh_svc |-> FALSE, refresh_int |-> "never"],
     [zap_switch |-> FALSE, zap_resume |-> TRUE, zap_stop |-> TRUE,
      zap_limit |-> TRUE, car_limit |-> FALSE, car_svc |-> TRUE,
      refresh_svc |-> FALSE, refresh_int |-> "never"],
     [zap_switch |-> TRUE, zap_resume |-> FALSE, zap_stop |-> FALSE,
      zap_limit |-> FALSE, car_limit |-> FALSE, car_svc |-> FALSE,
      refresh_svc |-> FALSE, refresh_int |-> "never"]}

-----------------------------------------------------------------------------
(***************************************************************************)
(* session_manager.py                                                      *)
(*                                                                         *)
(* Times are counted in half minutes (one 30 second update interval).      *)
(* Energy is kept in units of 1/12000 kWh (3 * 230 * amps / 1000 kW over   *)
(* one half minute is 69 * amps units), adjusted prices in units of        *)
(* 1/10000 of the currency unit ((price + fee) in hundredths times          *)
(* (100 + vat)), and the rounded results of a report in hundredths.        *)
(***************************************************************************)

(* timedelta(hours=24) in half minutes. *)
OneDay == 2880

(* current_session = None *)
NoSession == [active |-> FALSE, start_time |-> 0, history |-> << >>,
              log |-> << >>, session_overload_minutes |-> 0]

(* No report: last_session_data = None, or stop_session returning None. *)
NoReport == [kind |-> "none", start_time |-> 0, end_time |-> 0,
             start_soc |-> 0, end_soc |-> 0, added_kwh |-> 0,
             total_cost |-> 0, currency |-> "", graph_data |-> << >>,
             session_log |-> << >>, overload_prevention_minutes |-> 0]

(* The empty dictionary {} returned for a session without history. *)
EmptyReport == [NoReport EXCEPT !.kind = "empty"]

(* The operation last performed on the manager, its arguments and what it  *)
(* returned.                                                               *)
NoOp == [name |-> "init", ret |-> NoReport, minutes |-> 0, currency |-> "",
         last_applied_state |-> "",
         persisted |-> [action_log |-> << >>,
                        last_session_data |-> NoReport,
                        has_overload |-> FALSE,
                        overload_prevention_minutes |-> 0]]

(* SessionManager.__init__.  Next to the manager's own fields the record   *)
(* holds the clock of its host, the last plug edge driven through it, the  *)
(* number of operations performed so far and the last operation.           *)
NewSessionManager(clock) ==
    [action_log |-> << >>,
     current_session |-> NoSession,
     last_session_data |-> NoReport,
     overload_prevention_minutes |-> 0,
     was_charging_in_interval |-> FALSE,
     clock |-> clock,
     last_edge |-> "none",
     ops |-> 0,
     op |-> NoOp]

(* The pruning loop of add_log: entries older than the cutoff are popped   *)
(* from the end of the log until the last entry is recent enough.          *)
RECURSIVE prune_log(_, _)
prune_log(log, cutoff) ==
    IF log = << >> THEN log
    ELSE IF log[Len(log)].time < cutoff
         THEN prune_log(SubSeq(log, 1, Len(log) - 1), cutoff)
         ELSE log

(* add_log *)
add_log(self, message) ==
    LET entry == [time |-> self.clock, message |-> message]
        log == prune_log(<<entry>> \o self.action_log, self.clock - OneDay)
    IN  [self EXCEPT
           !.action_log = log,
           !.current_session =
               IF self.current_session.active
               THEN [self.current_session EXCEPT
                       !.log = Append(self.current_session.log, entry)]
               ELSE self.current_session]

(* start_session; initial_soc is not used by the code. *)
start_session(self, initial_soc) ==
    LET logged == add_log(self, "Car plugged in. Session started.")
    IN  [logged EXCEPT
           !.current_session = [active |-> TRUE,
                                start_time |-> self.clock,
                                history |-> << >>,
                                log |-> << >>,
                                session_overload_minutes |-> 0],
           !.overload_prevention_minutes = 0]

(* round(x, 2) of the non-negative fraction n / d given in units, with     *)
(* per100 units to the hundredth: the nearest hundredth, ties to even.     *)
round2(n, per100) ==
    LET q == n \div per100
        r == n % per100
    IN  IF 2 * r > per100 THEN q + 1
        ELSE IF 2 * r < per100 THEN q
        ELSE IF q % 2 = 0 THEN q ELSE q + 1

(* Energy units per hundredth of a kWh, cost units per hundredth of the    *)
(* currency unit.                                                          *)
KwhPer100 == 120
CostPer100 == 1200000

(* Faulty variant: every interval is counted, charging or not. *)
interval_counts_always(point) == TRUE

(* if is_charging and amps > 0 *)
interval_counts(point) == point.charging /\ point.amps > 0

(* The energy of the interval that ends at history[i], i >= 2. *)
interval_kwh(history, i) ==
    IF interval_counts(history[i - 1])
    THEN 69 * history[i - 1].amps * (history[i].time - history[i - 1].time)
    ELSE 0

(* The cost of the interval that ends at history[i]. *)
interval_cost(history, i) == interval_kwh(history, i) * history[i - 1].price

(* The loop of _calculate_session_totals over range(1, len(history)). *)
RECURSIVE total_kwh(_, _)
total_kwh(history, i) ==
    IF i < 2 THEN 0 ELSE total_kwh(history, i - 1) + interval_kwh(history, i)

RECURSIVE total_cost(_, _)
total_cost(history, i) ==
    IF i < 2 THEN 0 ELSE total_cost(history, i - 1) + interval_cost(history, i)

(* Faulty variant: a session without history reports like one with a       *)
(* single point.                                                           *)
no_history_report_zero(report) == [report EXCEPT !.kind = "report"]

(* if not history: return {} *)
no_history_report(report) == EmptyReport

(* _calculate_session_totals; final_soc = NoneVal is None. *)
calculate_session_totals(self, currency, final_soc) ==
    LET session == self.current_session
        history == session.history
        n == Len(history)
        report == [kind |-> "report",
                   start_time |-> session.start_time,
                   end_time |-> self.clock,
                   start_soc |-> IF n = 0 THEN 0 ELSE history[1].soc,
                   end_soc |-> IF final_soc # NoneVal THEN final_soc
                               ELSE IF n = 0 THEN 0 ELSE history[n].soc,
                   added_kwh |-> 0,
                   total_cost |-> 0,
                   currency |-> currency,
                   graph_data |-> history,
                   session_log |-> session.log,
                   overload_prevention_minutes |->
                       session.session_overload_minutes]
    IN  IF ~session.active THEN EmptyReport
        ELSE IF n = 0 THEN no_history_report(report)
        ELSE IF n < 2 THEN report
        ELSE [report EXCEPT
                !.added_kwh = round2(total_kwh(history, n), KwhPer100),
                !.total_cost = round2(total_cost(history, n), CostPer100)]

(* Faulty variant: the finished session is left in place. *)
closed_session_kept(session) == session

(* self.current_session = None *)
closed_session(session) == NoSession

(* stop_session; the report it returns is kept in op.ret. *)
stop_session(self, currency, final_soc) ==
    LET logged == add_log(self, "Unplugged. Session ended.")
        report == calculate_session_totals(logged, currency, final_soc)
    IN  IF ~logged.current_session.active
        THEN [logged EXCEPT !.op.ret = NoReport]
        ELSE [logged EXCEPT
                !.last_session_data = report,
                !.current_session = closed_session(logged.current_session),
                !.op.ret = report]

(* Faulty variant: the marker is not looked at. *)
is_charging_state_only(last_applied_state, marker) ==
    last_applied_state = "charging"

(* is_charging = 1 if (last_applied_state == "charging" or                 *)
(*                     self._was_charging_in_interval) else 0              *)
is_charging(last_applied_state, marker) ==
    last_applied_state = "charging" \/ marker

(* record_data_point.  price is current_price, today's price of the       *)
(* current slot in hundredths (0 when there is none), extra_fee is in      *)
(* hundredths and vat_pct in percent; amps and state are last_applied_amps *)
(* and last_applied_state.                                                 *)
record_data_point(self, soc, price, extra_fee, vat_pct, amps, state) ==
    IF ~self.current_session.active THEN self
    ELSE LET adjusted_price == (price + extra_fee) * (100 + vat_pct)
             point == [time |-> self.clock,
                       soc |-> soc,
                       amps |-> amps,
                       charging |-> is_charging(state,
                                        self.was_charging_in_interval),
                       price |-> adjusted_price]
         IN  [self EXCEPT
                !.current_session.history =
                    Append(self.current_session.history, point),
                !.was_charging_in_interval = FALSE]

(* mark_charging_in_interval *)
mark_charging_in_interval(self) ==
    [self EXCEPT !.was_charging_in_interval = TRUE]

(* Faulty variant: the minutes are not added to the accumulator. *)
accumulated_unchanged(total, minutes) == total

(* self.overload_prevention_minutes += minutes *)
accumulated(total, minutes) == total + minutes

(* Faulty variant: the minutes of the session are left as they are. *)
session_minutes_unchanged(session, minutes) == session.session_overload_minutes

(* if self.current_session: the minutes are also added to the session's    *)
(* session_overload_minutes.                                               *)
session_minutes(session, minutes) ==
    IF session.active
    THEN session.session_overload_minutes + minutes
    ELSE session.session_overload_minutes

(* add_overload_minutes; minutes in half minutes. *)
add_overload_minutes(self, minutes) ==
    [self EXCEPT
       !.overload_prevention_minutes =
           accumulated(self.overload_prevention_minutes, minutes),
       !.current_session.session_overload_minutes =
           session_minutes(self.current_session, minutes)]

(* Faulty variant: the accumulator is exported with the rest. *)
to_dict_with_overload(self) ==
    [action_log |-> self.action_log,
     last_session_data |-> self.last_session_data,
     has_overload |-> TRUE,
     overload_prevention_minutes |-> self.overload_prevention_minutes]

(* to_dict: the keys "action_log" and "last_session_data" only;            *)
(* has_overload tells whether the key "overload_prevention_minutes" is in  *)
(* the dictionary.                                                         *)
to_dict(self) ==
    [action_log |-> self.action_log,
     last_session_data |-> self.last_session_data,
     has_overload |-> FALSE,
     overload_prevention_minutes |-> 0]

(* load_from_dict of a non-empty dictionary. *)
load_from_dict(self, persisted) ==
    [self EXCEPT
       !.action_log = persisted.action_log,
       !.last_session_data = persisted.last_session_data]

-----------------------------------------------------------------------------
(***************************************************************************)
(* coordinator.py: the settings API and the control cycle that reads the   *)
(* settings.  A setting the user never stored is held at the default the   *)
(* code reads for it (target_soc 80, target_soc_override 80,               *)
(* min_guaranteed_soc 20, departure_time 07:00).  The action log is left   *)
(* to the session manager above.                                           *)
(***************************************************************************)

(* The locals of a control cycle: where it stands, its data dictionary     *)
(* (the settings merged at step 2, the plug sensor, whether every price    *)
(* entry is a number) and the state it found when it started.              *)
NoCycleInFlight ==
    [pc |-> "idle",
     data |-> [target_soc |-> 80, target_soc_override |-> 80,
               min_guaranteed_soc |-> 20, departure_time |-> 420,
               departure_override |-> 420,
               car_plugged |-> FALSE, prices_numeric |-> TRUE],
     flag_at_merge |-> FALSE,
     unplugged |-> FALSE,
     before |-> [previous_plugged_state |-> FALSE,
                 current_session |-> FALSE]]

(* self.data before the first successful cycle. *)
NoData == [present |-> FALSE, planned_target_soc |-> 0, status_note |-> ""]

(* The operation last performed on the coordinator. *)
NoCall == [name |-> "init", key |-> "", value |-> 0, internal |-> FALSE,
           failed |-> FALSE]

(* EVSmartChargerCoordinator.__init__, for a calendar entity that is       *)
(* configured or not.                                                      *)
NewCoordinator(calendar) ==
    [calendar |-> calendar,
     user_settings |-> [target_soc |-> 80, target_soc_override |-> 80,
                        min_guaranteed_soc |-> 20, departure_time |-> 420,
                        departure_override |-> 420],
     manual_override_active |-> FALSE,
     previous_plugged_state |-> FALSE,
     current_session |-> FALSE,
     data |-> NoData,
     saved |-> [manual_override_active |-> FALSE, written |-> FALSE],
     refreshes |-> 0,
     cycle |-> NoCycleInFlight,
     ops |-> 0,
     op |-> NoCall]

(* _save_data *)
save_data(self) ==
    [self EXCEPT !.saved = [manual_override_active |->
                                self.manual_override_active,
                            written |-> TRUE]]

(* if self.data: self.hass.async_create_task(self.async_refresh()) *)
schedule_refresh(self) ==
    IF self.data.present
    THEN [self EXCEPT !.refreshes = self.refreshes + 1]
    ELSE self

(* Faulty variant: an internal update of the override target counts too. *)
marks_override_also_internal(key, internal) == key = "target_soc_override"

(* if key == ENTITY_TARGET_OVERRIDE and not internal *)
marks_override(key, internal) == key = "target_soc_override" /\ ~internal

(* set_user_input *)
set_user_input(self, key, value, internal) ==
    schedule_refresh(save_data(
        [self EXCEPT
           !.user_settings = [self.user_settings EXCEPT ![key] = value],
           !.manual_override_active =
               IF marks_override(key, internal) THEN TRUE
               ELSE self.manual_override_active]))

(* clear_manual_override *)
clear_manual_override(self) ==
    schedule_refresh(save_data(
        [self EXCEPT
           !.manual_override_active = FALSE,
           !.user_settings =
               [self.user_settings EXCEPT
                  !["target_soc_override"] = self.user_settings["target_soc"]]]))

(* The target resolution of _generate_charging_plan for prices above both  *)
(* price limits and a calendar without a target: the override of the data  *)
(* dictionary under the coordinator's manual override flag, else the       *)
(* standard target, and never below the guaranteed minimum.                *)
planned_target(d, manual) ==
    [present |-> TRUE,
     planned_target_soc |->
         Max(IF manual THEN d["target_soc_override"]
             ELSE d["target_soc"],
             d["min_guaranteed_soc"]),
     status_note |-> IF manual THEN "(Manual Override)" ELSE "(Smart)"]

(* except Exception as err: raise UpdateFailed(...).  Nothing is undone. *)
cycle_failed(self) ==
    [self EXCEPT !.cycle = NoCycleInFlight, !.op.failed = TRUE]

(* Steps 8 to the return of _async_update_data: float(price) raises on a   *)
(* price entry that is not a number; else the plan is made with the flag   *)
(* as it is now and the data dictionary of this cycle, and the cycle's     *)
(* result becomes self.data.                                               *)
finish_cycle(self) ==
    IF ~self.cycle.data.prices_numeric
    THEN cycle_failed(self)
    ELSE [self EXCEPT
            !.data = planned_target(self.cycle.data,
                                    self.manual_override_active),
            !.cycle = NoCycleInFlight]

(* _handle_plugged_event, up to its await of the charger switch: on an     *)
(* unplug edge the session is finalized, the flag is lowered, both         *)
(* overrides are reset through set_user_input(internal=True) and in the    *)
(* data dictionary, and the cycle waits for the switch; on a plug-in edge  *)
(* a session is opened.  previous_plugged_state is assigned at the end of  *)
(* the handler.                                                            *)
handle_plugged_event_settings(self) ==
    LET is_plugged == self.cycle.data.car_plugged
    IN  IF ~is_plugged /\ self.previous_plugged_state
        THEN LET lowered == [self EXCEPT !.current_session = FALSE,
                                         !.manual_override_active = FALSE]
                 std_time == self.cycle.data["departure_time"]
                 std_target == self.cycle.data["target_soc"]
                 reset == set_user_input(
                              set_user_input(lowered, "departure_override",
                                             std_time, TRUE),
                              "target_soc_override", std_target, TRUE)
             IN  [save_data(reset) EXCEPT
                    !.cycle.data =
                        [self.cycle.data EXCEPT
                           !["departure_override"] = std_time,
                           !["target_soc_override"] = std_target],
                    !.cycle.unplugged = TRUE,
                    !.cycle.pc = "switch_off"]
        ELSE finish_cycle(
                 [self EXCEPT
                    !.current_session = IF is_plugged
                                        THEN TRUE ELSE self.current_session,
                    !.previous_plugged_state = is_plugged])

(* Steps 1 to 3 of _async_update_data: the sensors are read, the settings  *)
(* are merged into the data dictionary, and with a calendar entity the     *)
(* cycle waits for its events.                                             *)
begin_cycle(self, car_plugged, prices_numeric) ==
    LET merged ==
            [self EXCEPT
               !.cycle = [pc |-> "calendar",
                          data |-> [target_soc |->
                                        self.user_settings["target_soc"],
                                    target_soc_override |->
                                        self.user_settings["target_soc_override"],
                                    min_guaranteed_soc |->
                                        self.user_settings["min_guaranteed_soc"],
                                    departure_time |->
                                        self.user_settings["departure_time"],
                                    departure_override |->
                                        self.user_settings["departure_override"],
                                    car_plugged |-> car_plugged,
                                    prices_numeric |-> prices_numeric],
                          flag_at_merge |-> self.manual_override_active,
                          unplugged |-> FALSE,
                          before |-> [previous_plugged_state |->
                                          self.previous_plugged_state,
                                      current_session |->
                                          self.current_session]]]
    IN  IF self.calendar THEN merged ELSE handle_plugged_event_settings(merged)

(* The cycle goes on after the service call it waited for. *)
resume_cycle(self) ==
    IF self.cycle.pc = "calendar" THEN handle_plugged_event_settings(self)
    ELSE finish_cycle([self EXCEPT !.previous_plugged_state = FALSE])

-----------------------------------------------------------------------------
(***************************************************************************)
(* coordinator.py of ev_optimizer: the real-time listener                  *)
(*                                                                         *)
(* async_setup_listeners subscribes _async_p1_update_callback to the state *)
(* changes of the meter sensors.  Times are counted in half seconds.       *)
(***************************************************************************)

(* The debounce window of about two seconds. *)
DebounceWindow == 4

(* The record of a callback or timer that has not run. *)
NoEvent == [name |-> "none", first |-> FALSE, in_window |-> FALSE]

(* The listener after __init__: no callback seen, no timer pending.        *)
(* debounce_unsub tells whether the handle of a pending timer is held,     *)
(* timers are the due times of the timers the event loop holds.            *)
NewListener ==
    [clock |-> 0, last_p1_update |-> NoneVal, debounce_unsub |-> FALSE,
     timers |-> <<>>, refresh_requests |-> 0, timers_scheduled |-> 0,
     events |-> 0, ev |-> NoEvent]

(* The callback arrives within the window after the previous one. *)
in_debounce_window(self) ==
    /\ self.last_p1_update # NoneVal
    /\ self.clock - self.last_p1_update < DebounceWindow

(* Faulty variant: every debounced callback schedules a timer of its own. *)
timer_needed_always(self) == TRUE

(* A new event reuses a pending timer or schedules one if none exists. *)
timer_needed(self) == ~self.debounce_unsub

(* _async_p1_update_callback(event) *)
async_p1_update_callback(self) ==
    IF in_debounce_window(self)
    THEN [self EXCEPT
            !.last_p1_update = self.clock,
            !.timers = IF timer_needed(self)
                       THEN Append(@, self.clock + DebounceWindow) ELSE @,
            !.timers_scheduled = IF timer_needed(self) THEN @ + 1 ELSE @,
            !.debounce_unsub = TRUE]
    ELSE [self EXCEPT
            !.last_p1_update = self.clock,
            !.refresh_requests = @ + 1]

(* The delayed timer fires: the handle is dropped and one refresh is       *)
(* requested.                                                              *)
debounced_refresh(self) ==
    [self EXCEPT
       !.timers = Tail(@),
       !.debounce_unsub = FALSE,
       !.refresh_requests = @ + 1]

InitAuxIdle ==
    /\ sm = NewSessionManager(0)
    /\ coord = NewCoordinator(FALSE)
    /\ rt = NewListener

InitCtlIdle ==
    /\ ctl = InitialControl(CHOOSE c \in ConfChoices :
                                c.zap_switch /\ c.zap_limit)
    /\ InitAuxIdle

(* While the planner is exercised the load balancer and the coordinator  *)
(* stay at rest.                                                           *)
LBIdle == [p1_l1 |-> 0, p1_l2 |-> 0, p1_l3 |-> 0,
           ch_l1 |-> 0, ch_l2 |-> 0, ch_l3 |-> 0, zap_limit_value |-> 0]

InitLBIdle ==
    /\ lb_data = LBIdle /\ lb_max_fuse = 200 /\ lb_available = NoneVal
    /\ lb_pc = "idle"

InitPlannerIdle ==
    /\ data = DefaultData
    /\ config_settings = DefaultConfig
    /\ manual_override = FALSE
    /\ now = 0
    /\ overload_prevention_minutes = 0
    /\ plan = NoPlan
    /\ calc = NoCalc
    /\ plan_pc = "idle"

InitPlan == InitPlanner /\ InitLBIdle /\ InitCtlIdle
NextPlan == GeneratePlan
SpecPlan == InitPlan /\ [][NextPlan]_vars

-----------------------------------------------------------------------------
(***************************************************************************)
(* Inputs of calculate_load_balancing (tenths of an ampere)                *)
(***************************************************************************)

(* Metered phase currents: idle, light loads, 18 A, a load above the fuse. *)
MeterChoices == {0, 50, 55, 180, 400}
(* Charger phase currents: not measured or idle, charging, above the meter. *)
ChargerChoices == {0, 60, 160}
(* The limiter value: unknown, 16 A. *)
LimiterChoices == {0, 160}
(* Main fuses: 0.5 A, 10 A, 16 A, 20 A, 25 A (5% above the 1 A buffer),    *)
(* 100 A.                                                                  *)
MainFuseChoices == {5, 100, 160, 200, 250, 1000}

InitLB ==
    /\ \E a, b, c \in MeterChoices, x, y, z \in ChargerChoices,
          zap \in LimiterChoices :
            lb_data = [p1_l1 |-> a, p1_l2 |-> b, p1_l3 |-> c,
                       ch_l1 |-> x, ch_l2 |-> y, ch_l3 |-> z,
                       zap_limit_value |-> zap]
    /\ lb_max_fuse \in MainFuseChoices
    /\ lb_available = NoneVal
    /\ lb_pc = "idle"
    /\ InitPlannerIdle /\ InitCtlIdle

(* One call of calculate_load_balancing on the current inputs. *)
CalculateLoadBalancing ==
    /\ lb_pc = "idle"
    /\ lb_available' = calculate_load_balancing(lb_data, lb_max_fuse)
    /\ lb_pc' = "done"
    /\ UNCHANGED <<lb_data, lb_max_fuse, plan_vars, ctl, aux_vars>>

NextLB == CalculateLoadBalancing
SpecLB == InitLB /\ [][NextLB]_vars

-----------------------------------------------------------------------------
(***************************************************************************)
(* Inputs of _apply_charger_control                                        *)
(***************************************************************************)

(* max_available_current in tenths of an ampere: nothing, just below and  *)
(* at the 6 A minimum, a free 16 A fuse.                                   *)
AvailableChoices == {0, 59, 60, 150}

SummaryChoices == {"Target reached (80%). Maintenance mode active.",
                   "Departure / Target / Cost"}

TargetSocChoices == {80, 100}

(* Which service calls return: all, all but one, none. *)
OkChoices ==
    {[car |-> TRUE, switch |-> TRUE, limiter |-> TRUE],
     [car |-> FALSE, switch |-> TRUE, limiter |-> TRUE],
     [car |-> TRUE, switch |-> FALSE, limiter |-> TRUE],
     [car |-> TRUE, switch |-> TRUE, limiter |-> FALSE],
     [car |-> FALSE, switch |-> FALSE, limiter |-> FALSE]}

InitControl ==
    /\ \E conf \in ConfChoices : ctl = InitialControl(conf)
    /\ InitPlannerIdle /\ InitLBIdle /\ InitAuxIdle

(* The control step of an update interval: _apply_charger_control on the   *)
(* plan and the available current of this interval, for a car that is      *)
(* plugged in or not, at its target or not, in a selected slot or not.     *)
ControlStep(plugged, selected, at_target, available, target, ok) ==
    LET made == coordinator_window_plan(plugged, at_target, selected, target)
        d == [should_charge_now |-> made.should_charge_now,
              max_available_current |-> available,
              car_plugged |-> plugged]
        p == [charging_summary |-> made.charging_summary,
              planned_target_soc |-> made.planned_target_soc]
        after == apply_charger_control(ctl, d, p, ok)
    IN  /\ ctl' = [after EXCEPT
                     !.uptime = IF @ < MaxUptime THEN @ + 1 ELSE @]
        /\ UNCHANGED <<plan_vars, lb_vars, aux_vars>>

(* One update interval with the car plugged in. *)
ApplyChargerControl ==
    \E selected \in BOOLEAN, at_target \in BOOLEAN,
       available \in AvailableChoices, target \in TargetSocChoices,
       ok \in OkChoices :
        ControlStep(TRUE, selected, at_target, available, target, ok)

(* One update interval with the car unplugged. *)
ApplyChargerControlUnplugged ==
    \E at_target \in BOOLEAN,
       available \in AvailableChoices, target \in TargetSocChoices,
       ok \in OkChoices :
        ControlStep(FALSE, FALSE, at_target, available, target, ok)

Init == InitControl
Next == ApplyChargerControl
Spec == Init /\ [][Next]_vars

(* The coordinator from startup on with no car at the charger. *)
NextUnplugged == ApplyChargerControlUnplugged
SpecUnplugged == InitControl /\ [][NextUnplugged]_vars

-----------------------------------------------------------------------------
(***************************************************************************)
(* Inputs of _async_update_data                                            *)
(***************************************************************************)

(* The state of the SoC sensor: unavailable, 58 %, 82 %. *)
SocSensorChoices == {NoneVal, 58, 82}
(* The meter and the charger current: both unavailable; 18 A of house     *)
(* load; 18 A of which the charger draws 16 A.                             *)
CurrentSensorChoices ==
    {[p1 |-> NoneVal, ch |-> NoneVal], [p1 |-> 180, ch |-> NoneVal],
     [p1 |-> 180, ch |-> 160]}
(* The service calls of an interval all return, or the switch call raises. *)
EstimatorOkChoices == {ok \in OkChoices : ok.car /\ ok.limiter}
(* Half a minute and five minutes to the next update interval. *)
IntervalChoices == {1, TrustWindow}
(* The update intervals of a run. *)
MaxCycles == 3

(* A coordinator with a switch, a limiter and a car limit number, without  *)
(* a price sensor, and with each refresh strategy.                         *)
EstimatorConfChoices ==
    LET c == CHOOSE c \in ConfChoices : c.zap_switch /\ c.zap_limit
    IN  {c} \cup {[c EXCEPT !.refresh_svc = TRUE, !.refresh_int = m] :
                     m \in {"30_min", "at_target"}}

InitEstimator ==
    /\ \E conf \in EstimatorConfChoices, target \in TargetSocChoices :
          ctl = [InitialControl(conf) EXCEPT
                   !.user_settings = [target_soc |-> target,
                                      smart_charging_active |-> TRUE]]
    /\ InitPlannerIdle /\ InitLBIdle /\ InitAuxIdle

(* One update interval of the coordinator. *)
UpdateData ==
    /\ ctl.cycles < MaxCycles
    /\ \E soc \in SocSensorChoices, amps \in CurrentSensorChoices,
          plugged \in BOOLEAN, ok \in EstimatorOkChoices,
          t \in IntervalChoices :
            ctl' = async_update_data(
                       ctl,
                       [car_soc |-> soc, p1 |-> amps.p1, ch |-> amps.ch,
                        car_plugged |-> plugged],
                       ok, ok.switch, t)
    /\ UNCHANGED <<plan_vars, lb_vars, aux_vars>>

NextEstimator == UpdateData
SpecEstimator == InitEstimator /\ [][NextEstimator]_vars

-----------------------------------------------------------------------------
(***************************************************************************)
(* The session manager driven by its host                                  *)
(***************************************************************************)

(* What one update interval hands to record_data_point: the half minutes   *)
(* since the previous interval, the state of charge, the last applied      *)
(* amperes and state, and the price inputs.  A pause whose limiter call    *)
(* failed leaves the amperes of the last charge in place.                  *)
PointChoices ==
    {[dt |-> 20, soc |-> 50, amps |-> 16, state |-> "charging",
      price |-> 150, fee |-> 10, vat |-> 25],
     [dt |-> 1, soc |-> 60, amps |-> 0, state |-> "paused",
      price |-> 0, fee |-> 0, vat |-> 0],
     [dt |-> 20, soc |-> 60, amps |-> 16, state |-> "paused",
      price |-> 150, fee |-> 0, vat |-> 0],
     [dt |-> 1, soc |-> 70, amps |-> 6, state |-> "charging",
      price |-> 40, fee |-> 10, vat |-> 25]}

(* Half minutes handed to add_overload_minutes: 0.5 or 10.5 minutes. *)
OverloadMinutesChoices == {1, 21}

(* Half minutes the host is down before it restarts. *)
DowntimeChoices == {1, OneDay + 1}

CurrencyChoices == {"SEK", "EUR"}
FinalSocChoices == {NoneVal, 90}

(* The operations of one run. *)
MaxOps == 6

(* The manager as an operation finds it: the operation is counted and      *)
(* named, and dt half minutes have passed.                                 *)
Entered(name, dt) ==
    [sm EXCEPT !.clock = sm.clock + dt,
               !.ops = sm.ops + 1,
               !.op = [NoOp EXCEPT !.name = name]]

InitSession ==
    /\ sm = NewSessionManager(0)
    /\ coord = NewCoordinator(FALSE)
    /\ rt = NewListener
    /\ ctl = InitialControl(CHOOSE c \in ConfChoices :
                               c.zap_switch /\ c.zap_limit)
    /\ InitPlannerIdle /\ InitLBIdle

(* A plug-in edge: the host calls start_session. *)
StartSession ==
    /\ sm.last_edge # "plug_in"
    /\ sm.ops < MaxOps
    /\ \E soc \in {p.soc : p \in PointChoices} :
          sm' = [start_session(Entered("start_session", 0), soc) EXCEPT
                   !.last_edge = "plug_in"]
    /\ UNCHANGED <<plan_vars, lb_vars, ctl, coord, rt>>

(* An unplug edge: the host calls stop_session. *)
StopSession ==
    /\ sm.last_edge = "plug_in"
    /\ sm.ops < MaxOps
    /\ \E currency \in CurrencyChoices, final_soc \in FinalSocChoices :
          sm' = [stop_session([Entered("stop_session", 0) EXCEPT
                                 !.op.currency = currency],
                              currency, final_soc) EXCEPT
                   !.last_edge = "unplug"]
    /\ UNCHANGED <<plan_vars, lb_vars, ctl, coord, rt>>

(* An update interval passes and its data point is recorded. *)
RecordDataPoint ==
    /\ sm.ops < MaxOps
    /\ \E p \in PointChoices :
          sm' = record_data_point(
                    [Entered("record_data_point", p.dt) EXCEPT
                       !.op.last_applied_state = p.state],
                    p.soc, p.price, p.fee, p.vat, p.amps, p.state)
    /\ UNCHANGED <<plan_vars, lb_vars, ctl, coord, rt>>

(* The charger was switched on within the interval. *)
MarkChargingInInterval ==
    /\ sm.ops < MaxOps
    /\ sm' = mark_charging_in_interval(
                 Entered("mark_charging_in_interval", 0))
    /\ UNCHANGED <<plan_vars, lb_vars, ctl, coord, rt>>

(* The load balancer kept the charger below its minimum for some time. *)
AddOverloadMinutes ==
    /\ \E minutes \in OverloadMinutesChoices :
          /\ sm.ops < MaxOps
          /\ sm' = add_overload_minutes(
                       [Entered("add_overload_minutes", 0) EXCEPT
                          !.op.minutes = minutes],
                       minutes)
    /\ UNCHANGED <<plan_vars, lb_vars, ctl, coord, rt>>

(* The host restarts: the state it saved with to_dict is loaded into a     *)
(* fresh manager with load_from_dict.                                      *)
Restart ==
    /\ sm.ops < MaxOps
    /\ \E down \in DowntimeChoices :
          LET persisted == to_dict(sm)
              fresh == NewSessionManager(sm.clock + down)
          IN  sm' = [load_from_dict(fresh, persisted) EXCEPT
                       !.ops = sm.ops + 1,
                       !.op = [NoOp EXCEPT !.name = "load_from_dict",
                                           !.persisted = persisted]]
    /\ UNCHANGED <<plan_vars, lb_vars, ctl, coord, rt>>

NextSession ==
    \/ StartSession
    \/ StopSession
    \/ RecordDataPoint
    \/ MarkChargingInInterval
    \/ AddOverloadMinutes
    \/ Restart

SpecSession == InitSession /\ [][NextSession]_vars

-----------------------------------------------------------------------------
(***************************************************************************)
(* The coordinator's settings and control cycles on the event loop         *)
(***************************************************************************)

(* The keys the user sets and the values of each. *)
SettingChoices ==
    {[key |-> "target_soc", value |-> 90],
     [key |-> "target_soc_override", value |-> 95],
     [key |-> "min_guaranteed_soc", value |-> 50]}

(* The operations of one run. *)
MaxCalls == 5

(* The coordinator as an operation finds it. *)
Called(name) ==
    [coord EXCEPT !.ops = coord.ops + 1,
                  !.op = [NoCall EXCEPT !.name = name]]

InitCoordinator ==
    /\ \E calendar \in BOOLEAN : coord = NewCoordinator(calendar)
    /\ sm = NewSessionManager(0)
    /\ rt = NewListener
    /\ ctl = InitialControl(CHOOSE c \in ConfChoices :
                               c.zap_switch /\ c.zap_limit)
    /\ InitPlannerIdle /\ InitLBIdle

(* A number entity hands a value of the user to set_user_input.  It is a   *)
(* plain call on the event loop, so it also runs while a cycle waits.      *)
SetUserInput ==
    /\ coord.ops < MaxCalls
    /\ \E s \in SettingChoices :
          coord' = set_user_input(
                       [Called("set_user_input") EXCEPT
                          !.op.key = s.key, !.op.value = s.value],
                       s.key, s.value, FALSE)
    /\ UNCHANGED <<plan_vars, lb_vars, ctl, sm, rt>>

(* The clear override button. *)
ClearManualOverride ==
    /\ coord.ops < MaxCalls
    /\ coord' = clear_manual_override(Called("clear_manual_override"))
    /\ UNCHANGED <<plan_vars, lb_vars, ctl, sm, rt>>

(* A control cycle starts, on the update interval or as one of the         *)
(* scheduled refreshes, and runs until it waits for a service or returns.  *)
(* Refreshes are started one at a time here: no cycle starts while         *)
(* another is in flight.                                                   *)
BeginCycle ==
    /\ coord.ops < MaxCalls
    /\ coord.cycle.pc = "idle"
    /\ \E scheduled \in BOOLEAN, car_plugged \in BOOLEAN,
          prices_numeric \in BOOLEAN :
          /\ scheduled => coord.refreshes > 0
          /\ coord' = begin_cycle(
                          [Called("cycle") EXCEPT
                             !.refreshes = IF scheduled
                                           THEN coord.refreshes - 1
                                           ELSE coord.refreshes],
                          car_plugged, prices_numeric)
    /\ UNCHANGED <<plan_vars, lb_vars, ctl, sm, rt>>

(* The service the cycle waited for has answered. *)
ResumeCycle ==
    /\ coord.cycle.pc # "idle"
    /\ coord' = resume_cycle([coord EXCEPT !.op = [NoCall EXCEPT
                                                      !.name = "cycle"]])
    /\ UNCHANGED <<plan_vars, lb_vars, ctl, sm, rt>>

NextCoordinator ==
    \/ SetUserInput
    \/ ClearManualOverride
    \/ BeginCycle
    \/ ResumeCycle

SpecCoordinator == InitCoordinator /\ [][NextCoordinator]_vars

-----------------------------------------------------------------------------
(***************************************************************************)
(* The real-time listener driven by the event loop                         *)
(***************************************************************************)

(* The time between two events, in half seconds: none, half a second, the  *)
(* whole window.                                                           *)
ElapsedChoices == {0, 1, DebounceWindow}

(* The callbacks of one run. *)
MaxEvents == 6

(* The listener as an event finds it, at the time at. *)
Happened(name, at) ==
    [rt EXCEPT !.clock = at,
               !.ev = [name |-> name,
                       first |-> rt.last_p1_update = NoneVal,
                       in_window |-> in_debounce_window(
                                         [rt EXCEPT !.clock = at])]]

InitRealtime ==
    /\ rt = NewListener
    /\ sm = NewSessionManager(0)
    /\ coord = NewCoordinator(FALSE)
    /\ ctl = InitialControl(CHOOSE c \in ConfChoices :
                               c.zap_switch /\ c.zap_limit)
    /\ InitPlannerIdle /\ InitLBIdle

(* A meter sensor changes its state.  A timer that is due has fired before *)
(* a later callback runs.                                                  *)
P1UpdateCallback ==
    /\ rt.events < MaxEvents
    /\ \E dt \in ElapsedChoices :
          /\ rt.timers # <<>> => rt.clock + dt <= Head(rt.timers)
          /\ rt' = async_p1_update_callback(
                       [Happened("callback", rt.clock + dt) EXCEPT
                          !.events = @ + 1])
    /\ UNCHANGED <<plan_vars, lb_vars, ctl, sm, coord>>

(* The event loop runs the delayed timer that is due first. *)
DebounceTimerFires ==
    /\ rt.timers # <<>>
    /\ rt' = debounced_refresh(Happened("timer", Head(rt.timers)))
    /\ UNCHANGED <<plan_vars, lb_vars, ctl, sm, coord>>

NextRealtime ==
    \/ P1UpdateCallback
    \/ DebounceTimerFires

SpecRealtime == InitRealtime /\ [][NextRealtime]_vars




-----------------------------------------------------------------------------
(***************************************************************************)
(* Properties of generate_charging_plan (specification SpecPlan)            *)
(***************************************************************************)

Planned == plan_pc = "planned"

(* What the returned plan shows: its schedule without the synthetic       *)
(* trailing entry, the entries starting before the deadline, the active    *)
(* entries, the entries covering now.                                      *)
Entries == 1..(Len(plan.charging_schedule) - 1)
EntryAt(i) == plan.charging_schedule[i]
WindowEntries == {i \in Entries : EntryAt(i).start < plan.departure_time}
ActiveEntries == {i \in Entries : EntryAt(i).active}
EntriesAtNow == {i \in WindowEntries :
                    EntryAt(i).start <= now /\ now < EntryAt(i).end}

Unplugged == data.car_plugged # "true"
CurrentSoc == IF data.car_soc = NoneVal THEN 0 ELSE data.car_soc
ChargingNeeded == CurrentSoc < plan.planned_target_soc
Deferred ==
    plan.charging_summary = "Waiting for additional price data before planning."
Maintenance ==
    plan.charging_summary = "Target reached. Maintenance mode active."
(* Slots were selected by price: the window is not empty, charging is     *)
(* needed and the decision was not deferred.                               *)
Selecting ==
    /\ Planned /\ data.smart_charging_active
    /\ WindowEntries # {} /\ ChargingNeeded /\ ~Deferred

(* C1: an unplugged car (car_plugged false or missing) never gets         *)
(* should_charge_now = true, on any return path.                           *)
C1_UnpluggedNeverCharges ==
    (Planned /\ Unplugged) => ~plan.should_charge_now

(* C1 witness: unplugged, slots selected, and the slot covering now is    *)
(* active, so only the unplugged guard keeps should_charge_now false.      *)
C1_Witness ==
    /\ Selecting /\ Unplugged
    /\ \E i \in EntriesAtNow : EntryAt(i).active
    /\ ~plan.should_charge_now


(* data.get(min_guaranteed_soc, 20) *)
MinGuaranteed ==
    IF data.min_guaranteed_soc = NoneVal THEN 20 ELSE data.min_guaranteed_soc

(* C4: every returned plan has                                            *)
(* min_guaranteed_soc <= planned_target_soc <= 100, whatever the target    *)
(* source and the return path.                                             *)
C4_TargetInRange ==
    Planned => /\ MinGuaranteed <= plan.planned_target_soc
               /\ plan.planned_target_soc <= 100

(* C4 witness: a calendar target below the guaranteed minimum was raised  *)
(* to the minimum.                                                         *)
C4_Witness ==
    /\ Planned /\ ~manual_override
    /\ data.calendar_events = <<Event(1410, 10)>>
    /\ MinGuaranteed = 50
    /\ plan.planned_target_soc = 50
    /\ plan.charging_schedule # <<>>

(* C5: when charging is needed and the decision is not deferred, the      *)
(* active slots are exactly min(slots_needed, window size) window slots,   *)
(* no inactive window slot is strictly cheaper than an active one, and of  *)
(* two window slots of equal price the earlier is taken first.             *)
C5_CheapestSlotsActive ==
    Selecting =>
        /\ ActiveEntries \subseteq WindowEntries
        /\ Cardinality(ActiveEntries) =
               Min(calc.slots_needed, Cardinality(WindowEntries))
        /\ \A i \in ActiveEntries : \A j \in WindowEntries \ ActiveEntries :
               /\ EntryAt(i).price <= EntryAt(j).price
               /\ EntryAt(i).price = EntryAt(j).price => i < j

(* No two retained slots start at the same time. *)
DistinctStarts ==
    \A i, j \in Entries : EntryAt(i).start = EntryAt(j).start => i = j

(* C5 restricted to plans whose retained slots have distinct start times. *)
C5_CheapestSlotsActive_DistinctStarts ==
    (Selecting /\ DistinctStarts) =>
        /\ ActiveEntries \subseteq WindowEntries
        /\ Cardinality(ActiveEntries) =
               Min(calc.slots_needed, Cardinality(WindowEntries))
        /\ \A i \in ActiveEntries : \A j \in WindowEntries \ ActiveEntries :
               /\ EntryAt(i).price <= EntryAt(j).price
               /\ EntryAt(i).price = EntryAt(j).price => i < j

PriceDataPresent == data.price_data.today # <<>>

(* C6: plugged in, smart charging on, price data present:                 *)
(* should_charge_now iff the window slot covering now is active.           *)
C6_ChargeNowIffCurrentSlotActive ==
    (Planned /\ ~Unplugged /\ data.smart_charging_active /\ PriceDataPresent)
        => (plan.should_charge_now <=>
                \E i \in EntriesAtNow : EntryAt(i).active)

(* C6 as amended: the same, for plans that have a window slot (a retained *)
(* price slot starting before the deadline); with no window slot the plan  *)
(* charges immediately.                                                    *)
C6_ChargeNowIffCurrentSlotActive_Window ==
    (Planned /\ ~Unplugged /\ data.smart_charging_active /\ PriceDataPresent)
        => IF WindowEntries # {}
           THEN plan.should_charge_now <=>
                    \E i \in EntriesAtNow : EntryAt(i).active
           ELSE plan.should_charge_now

(* C6 witness: some window slots are selected, others are not, and the    *)
(* slot covering now is among the selected ones.                           *)
C6_Witness ==
    /\ Selecting /\ ~Unplugged /\ plan.should_charge_now
    /\ \E i \in WindowEntries : ~EntryAt(i).active
    /\ \E i \in EntriesAtNow : EntryAt(i).active

(* data.get(price_limit_2, 1.5) *)
PriceLimit2 == IF data.price_limit_2 = NoneVal THEN 150 ELSE data.price_limit_2

(* C7: in maintenance mode the active slots are exactly the window slots  *)
(* priced <= price_limit_2; with every window price above the limit there  *)
(* is no active slot and should_charge_now is false.                       *)
C7_MaintenanceSlots ==
    (Planned /\ Maintenance) =>
        /\ ActiveEntries = {i \in WindowEntries : EntryAt(i).price <= PriceLimit2}
        /\ (\A i \in WindowEntries : EntryAt(i).price > PriceLimit2)
               => (ActiveEntries = {} /\ ~plan.should_charge_now)

(* C7 restricted to plans whose retained slots have distinct start times. *)
C7_MaintenanceSlots_DistinctStarts ==
    (Planned /\ Maintenance /\ DistinctStarts) =>
        /\ ActiveEntries = {i \in WindowEntries : EntryAt(i).price <= PriceLimit2}
        /\ (\A i \in WindowEntries : EntryAt(i).price > PriceLimit2)
               => (ActiveEntries = {} /\ ~plan.should_charge_now)


(* The quantities the deferred-decision and slot-count rules are stated   *)
(* in, computed from the inputs and the returned plan:                     *)
(*   hours_needed = kwh_to_pull / min(3 * 230 * max_fuse / 1000, 11)       *)
(*   kwh_to_pull  = (target - soc) / 100 * car_capacity                    *)
(*                  / (1 - charger_loss / 100)                             *)
(* as the fraction HoursNum / HoursDen (both divided by 10).               *)
HoursNum ==
    (plan.planned_target_soc - CurrentSoc) * config_settings.car_capacity * 100
HoursDen ==
    (100 - config_settings.charger_loss) *
        (IF 69 * config_settings.max_fuse <= 1100
         THEN 69 * config_settings.max_fuse ELSE 1100)

(* The last known price slot ends before the deadline. *)
HorizonShort ==
    /\ Entries # {}
    /\ \A i \in Entries : EntryAt(i).end < plan.departure_time

(* now < deadline - (hours_needed + overload_minutes / 60) *)
BeforeLatestStart ==
    120 * HoursNum <
        (2 * (plan.departure_time - now) - overload_prevention_minutes) * HoursDen

(* Duration in minutes of the first window slot. *)
SlotMinutes == EntryAt(1).end - EntryAt(1).start

(* ceil(hours_needed / slot duration) and ceil(overload / slot duration). *)
BaseSlots == (HoursNum * 60 + HoursDen * SlotMinutes - 1) \div (HoursDen * SlotMinutes)
ExtraSlots ==
    (overload_prevention_minutes + 2 * SlotMinutes - 1) \div (2 * SlotMinutes)

HasWindow ==
    Planned /\ data.smart_charging_active /\ WindowEntries # {}

(* C8 as stated: with the price horizon short of the deadline, before the *)
(* latest start nothing is active and should_charge_now is false; from     *)
(* the latest start on, slots are selected normally.                       *)
C8_DeferredDecision ==
    (HasWindow /\ HorizonShort) =>
        IF BeforeLatestStart
        THEN ~plan.should_charge_now /\ ActiveEntries = {}
        ELSE /\ ~Deferred
             /\ Cardinality(ActiveEntries) =
                    Min(BaseSlots + ExtraSlots, Cardinality(WindowEntries))

(* C8 as amended: the same, when charging is needed                       *)
(* (current_soc < planned target).                                         *)
C8_DeferredDecision_ChargingNeeded ==
    (HasWindow /\ HorizonShort /\ ChargingNeeded) =>
        IF BeforeLatestStart
        THEN ~plan.should_charge_now /\ ActiveEntries = {} /\ Deferred
        ELSE /\ ~Deferred
             /\ Cardinality(ActiveEntries) =
                    Min(BaseSlots + ExtraSlots, Cardinality(WindowEntries))

(* C8 witness: a deferred plan of a plugged-in car, with overload minutes *)
(* counted into the latest start.                                          *)
C8_Witness ==
    /\ HasWindow /\ HorizonShort /\ ChargingNeeded /\ BeforeLatestStart
    /\ ~Unplugged /\ overload_prevention_minutes > 0
    /\ Deferred /\ ActiveEntries = {} /\ ~plan.should_charge_now
    /\ \E i \in EntriesAtNow : TRUE

(* C8 second witness: the horizon is short but the latest start is        *)
(* reached only because of the overload minutes, and slots are selected.   *)
C8_WitnessLate ==
    /\ HasWindow /\ HorizonShort /\ ChargingNeeded /\ ~BeforeLatestStart
    /\ 120 * HoursNum < 2 * (plan.departure_time - now) * HoursDen
    /\ ActiveEntries # {}


(* The plan the same inputs produce with no overload minutes. *)
PlanWithoutOverload ==
    generate_charging_plan(data, config_settings, manual_override, now, 0)

ActiveCount(schedule) ==
    Cardinality({i \in 1..Len(schedule) : schedule[i].active})

(* C9: with m accumulated overload minutes the planner needs              *)
(* ceil(m / slot_duration_minutes) slots more than with none, never has    *)
(* fewer active slots (more, up to the window size), and returns m in the  *)
(* plan.                                                                    *)
C9_OverloadExtraSlots ==
    Planned =>
        LET base == PlanWithoutOverload
        IN  /\ plan.overload_prevention_minutes = overload_prevention_minutes
            /\ ActiveCount(plan.charging_schedule) >=
                   ActiveCount(base.plan.charging_schedule)
            /\ (calc.path = "selection" /\ base.calc.path = "selection") =>
                   /\ calc.slots_needed = base.calc.slots_needed + ExtraSlots
                   /\ Len(calc.selected_slots) =
                          Min(Len(base.calc.selected_slots) + ExtraSlots,
                              Len(calc.calc_window))

(* C9 witness: half a minute of overload costs one more active slot. *)
C9_Witness ==
    /\ Planned /\ Selecting
    /\ overload_prevention_minutes = 1
    /\ PlanWithoutOverload.calc.path = "selection"
    /\ ActiveCount(plan.charging_schedule) =
           ActiveCount(PlanWithoutOverload.plan.charging_schedule) + 1
    /\ plan.overload_prevention_minutes = 1

(* Every window slot has the duration of the first one. *)
UniformWindow ==
    \A i \in WindowEntries : EntryAt(i).end - EntryAt(i).start = SlotMinutes

(* C10 as stated: whenever charging is needed, the active slots'          *)
(* durations add up to hours_needed within one slot of the minimal cover.  *)
C10_ActiveDurationCoversNeed ==
    (HasWindow /\ ChargingNeeded /\ UniformWindow) =>
        LET total == Cardinality(ActiveEntries) * SlotMinutes
        IN  /\ total >= (BaseSlots - 1) * SlotMinutes
            /\ total <= (BaseSlots + 1) * SlotMinutes

(* C10 as amended: when charging is needed and the decision is not        *)
(* deferred, min(ceil(hours_needed / slot) + ceil(overload / slot),        *)
(* window size) slots are selected; with no overload minutes and a window  *)
(* of equal slots at least that long, their durations add up to the        *)
(* minimal whole number of slots covering hours_needed.  A deferred plan   *)
(* has no active slot.                                                     *)
C10_SelectedSlotsCoverNeed ==
    (HasWindow /\ ChargingNeeded) =>
        IF Deferred THEN ActiveEntries = {} ELSE
        /\ Len(calc.selected_slots) =
               Min(BaseSlots + ExtraSlots, Cardinality(WindowEntries))
        /\ \A k \in 1..Len(calc.selected_slots) :
               \E i \in ActiveEntries :
                   EntryAt(i).start = calc.selected_slots[k].start
        /\ (/\ overload_prevention_minutes = 0
            /\ UniformWindow
            /\ Cardinality(WindowEntries) >= BaseSlots) =>
               /\ Len(calc.selected_slots) = BaseSlots
               /\ \A k \in 1..Len(calc.selected_slots) :
                      calc.selected_slots[k].end - calc.selected_slots[k].start
                          = SlotMinutes

(* C10 witness: a need that is not a whole number of slots, covered by    *)
(* the next whole number of equal slots.                                   *)
C10_Witness ==
    /\ HasWindow /\ ChargingNeeded /\ Selecting /\ UniformWindow
    /\ overload_prevention_minutes = 0
    /\ BaseSlots >= 2
    /\ (HoursNum * 60) % (HoursDen * SlotMinutes) # 0
    /\ Cardinality(WindowEntries) > BaseSlots
    /\ Len(calc.selected_slots) = BaseSlots
    /\ Cardinality(ActiveEntries) = BaseSlots

(* The raw price slots that have not ended before now: entry k (from 0)  *)
(* of an array of n prices anchored at minute base lasts from              *)
(* base + k * step to base + (k + 1) * step, step being 60 up to 25        *)
(* entries and 15 above.                                                   *)
StepOf(arr) == IF Len(arr) <= 25 THEN 60 ELSE 15
RetainedOf(arr, base) ==
    {k \in 1..Len(arr) : base + k * StepOf(arr) >= now}
RetainedCount ==
    Cardinality(RetainedOf(data.price_data.today, 0))
    + Cardinality(RetainedOf(data.price_data.tomorrow, DayMinutes))

Schedule == plan.charging_schedule

(* C11: a non-empty charging_schedule is in chronological order, its      *)
(* consecutive entries do not overlap, it holds every retained price slot  *)
(* and ends with one inactive zero-length entry at the last slot's end.    *)
C11_ScheduleOrdered ==
    (Planned /\ Schedule # <<>>) =>
        /\ \A i \in 1..(Len(Schedule) - 1) :
               /\ Schedule[i].start <= Schedule[i + 1].start
               /\ Schedule[i].end <= Schedule[i + 1].start
        /\ Len(Schedule) = RetainedCount + 1
        /\ LET last == Schedule[Len(Schedule)]
               real == Schedule[Len(Schedule) - 1]
           IN  /\ ~last.active
               /\ last.start = real.end
               /\ last.end = real.end

(* C11 restricted to plans whose retained slots have distinct start times. *)
C11_ScheduleOrdered_DistinctStarts ==
    (Planned /\ Schedule # <<>> /\ DistinctStarts) =>
        /\ \A i \in 1..(Len(Schedule) - 1) :
               /\ Schedule[i].start <= Schedule[i + 1].start
               /\ Schedule[i].end <= Schedule[i + 1].start
        /\ Len(Schedule) = RetainedCount + 1
        /\ LET last == Schedule[Len(Schedule)]
               real == Schedule[Len(Schedule) - 1]
           IN  /\ ~last.active
               /\ last.start = real.end
               /\ last.end = real.end

(* The plan went through target resolution (it did not return early). *)
TargetResolved == calc.path \in {"maintenance", "waiting", "selection"}

(* C12: with manual override active planned_target_soc equals             *)
(* target_soc_override, whatever the prices and the calendar events.       *)
C12_ManualOverrideTarget ==
    (Planned /\ manual_override /\ data.target_soc_override # NoneVal) =>
        plan.planned_target_soc = data.target_soc_override

(* C12 restricted to plans that went through target resolution. *)
C12_ManualOverrideTarget_Resolved ==
    (Planned /\ manual_override /\ data.target_soc_override # NoneVal
        /\ TargetResolved) =>
        plan.planned_target_soc = data.target_soc_override

(* An upcoming calendar event: it has a start, at or after now and not    *)
(* after the end of tomorrow.                                              *)
Upcoming(e) ==
    e.start # NoneVal /\ e.start >= now /\ e.start < 2 * DayMinutes
HasTarget(e) == e.pct # NoneVal /\ 10 <= e.pct /\ e.pct <= 100
CalendarEvents ==
    {data.calendar_events[i] : i \in 1..Len(data.calendar_events)}
NoCalendarTarget == \A e \in CalendarEvents : ~(Upcoming(e) /\ HasTarget(e))

BaseTarget == IF data.target_soc = NoneVal THEN 80 ELSE data.target_soc
WindowMinPrice == CHOOSE p \in {EntryAt(i).price : i \in WindowEntries} :
                      \A i \in WindowEntries : p <= EntryAt(i).price
AtLeast(a, b) == IF a >= b THEN a ELSE b

(* The target the opportunistic rule names, raised to the minimum. *)
OpportunisticTarget ==
    AtLeast(MinGuaranteed,
        IF WindowMinPrice <= data.price_limit_1
        THEN AtLeast(BaseTarget, data.target_soc_1)
        ELSE IF WindowMinPrice <= data.price_limit_2
             THEN AtLeast(BaseTarget, data.target_soc_2)
             ELSE BaseTarget)

(* C13: with no manual override and no calendar target the planned target *)
(* follows the minimum window price: max(target_soc, target_soc_1) up to   *)
(* price_limit_1, max(target_soc, target_soc_2) up to price_limit_2,       *)
(* target_soc above, each raised to min_guaranteed_soc.                    *)
C13_OpportunisticTarget ==
    (HasWindow /\ ~manual_override /\ NoCalendarTarget) =>
        plan.planned_target_soc = OpportunisticTarget

(* C13 as amended: the rule applies when the last known price slot ends   *)
(* at or after the deadline; when it ends before the deadline the planned  *)
(* target is target_soc raised to min_guaranteed_soc.                      *)
C13_OpportunisticTarget_HorizonCovers ==
    (HasWindow /\ ~manual_override /\ NoCalendarTarget) =>
        plan.planned_target_soc =
            IF HorizonShort THEN AtLeast(MinGuaranteed, BaseTarget)
            ELSE OpportunisticTarget

(* C13 witness: a base target of 100 with the cheapest window price       *)
(* between the two limits stays 100, above target_soc_2.                   *)
C13_Witness ==
    /\ HasWindow /\ ~manual_override /\ NoCalendarTarget /\ ~HorizonShort
    /\ data.target_soc = 100
    /\ WindowMinPrice > data.price_limit_1
    /\ WindowMinPrice <= data.price_limit_2
    /\ data.target_soc_2 < 100
    /\ plan.planned_target_soc = 100

(* C13 second witness: level 1 raises a base target of 50 to target_soc_1. *)
C13_WitnessLevel1 ==
    /\ HasWindow /\ ~manual_override /\ NoCalendarTarget /\ ~HorizonShort
    /\ data.target_soc = 50
    /\ WindowMinPrice <= data.price_limit_1
    /\ plan.planned_target_soc = data.target_soc_1

(* The next upcoming calendar event. *)
UpcomingEvents == {e \in CalendarEvents : Upcoming(e)}
NextEvent == CHOOSE e \in UpcomingEvents :
                 \A f \in UpcomingEvents : e.start <= f.start

(* C14: with manual override inactive, an upcoming calendar event whose   *)
(* text holds a percentage p in 10..100 makes planned_target_soc = p       *)
(* (raised to min_guaranteed_soc) and its start the departure deadline,    *)
(* whatever departure_override, departure_time and the prices are.         *)
C14_CalendarTarget ==
    (Planned /\ ~manual_override /\ UpcomingEvents # {} /\ HasTarget(NextEvent))
        => /\ plan.planned_target_soc = AtLeast(MinGuaranteed, NextEvent.pct)
           /\ plan.departure_time = NextEvent.start

(* C14 restricted to plans that went through target resolution. *)
C14_CalendarTarget_Resolved ==
    (Planned /\ ~manual_override /\ UpcomingEvents # {} /\ HasTarget(NextEvent)
        /\ TargetResolved)
        => /\ plan.planned_target_soc = AtLeast(MinGuaranteed, NextEvent.pct)
           /\ plan.departure_time = NextEvent.start

NoPricesToday == data.price_data.today = <<>>

NoPriceOutcome ==
    /\ plan.charging_summary # "Not calculated"
    /\ plan.should_charge_now = (data.car_plugged = "true")
    /\ plan.charging_schedule = <<>>

NoPriceSummary ==
    IF config_settings.has_price_sensor
    THEN plan.charging_summary =
             "Error: Price sensor configured but no data received."
    ELSE plan.charging_summary = "No Price Sensor. Load Balancing Mode."

(* C16: when today's price array is empty or missing, a plan is returned  *)
(* with should_charge_now equal to car_plugged and an empty schedule; the  *)
(* summary reports load-balancing mode when no price sensor is configured  *)
(* and an error when a sensor is configured but delivered no data.         *)
C16_NoPriceData ==
    (Planned /\ NoPricesToday) => (NoPriceOutcome /\ NoPriceSummary)

(* C16 as the code has it: the two summaries are those of a plan made     *)
(* with smart charging enabled; with smart charging disabled the summary   *)
(* is "Smart charging disabled. Charging immediately.", whatever the price *)
(* data.                                                                   *)
C16_NoPriceData_SmartEnabled ==
    (Planned /\ NoPricesToday) =>
        /\ NoPriceOutcome
        /\ IF data.smart_charging_active
           THEN NoPriceSummary
           ELSE plan.charging_summary =
                    "Smart charging disabled. Charging immediately."

(* C16 witness: no price sensor, car plugged in, smart charging enabled:  *)
(* charging in load-balancing mode.                                        *)
C16_Witness ==
    /\ Planned /\ NoPricesToday /\ data.smart_charging_active
    /\ ~config_settings.has_price_sensor
    /\ data.car_plugged = "true" /\ plan.should_charge_now
    /\ plan.charging_summary = "No Price Sensor. Load Balancing Mode."

(* C16 witness: a configured price sensor without data, car unplugged. *)
C16_WitnessError ==
    /\ Planned /\ NoPricesToday /\ data.smart_charging_active
    /\ config_settings.has_price_sensor
    /\ data.car_plugged # "true" /\ ~plan.should_charge_now
    /\ plan.charging_summary =
           "Error: Price sensor configured but no data received."

-----------------------------------------------------------------------------
(***************************************************************************)
(* Properties of calculate_load_balancing (specification SpecLB)            *)
(***************************************************************************)

(* C3: for all non-negative metered currents, charger currents and        *)
(* limiter values and every max_fuse > 0, calculate_load_balancing         *)
(* returns a value in [0, max_fuse].                                       *)
C3_LoadBalancingInRange ==
    lb_pc = "done" =>
        /\ 0 <= lb_available
        /\ lb_available <= LBScale * lb_max_fuse

(* C3 witness: the house load alone exceeds the fuse, so the difference   *)
(* is negative and the result is 0.                                        *)
C3_Witness ==
    /\ lb_pc = "done"
    /\ lb_data.ch_l1 = 0 /\ lb_data.ch_l2 = 0 /\ lb_data.ch_l3 = 0
    /\ lb_data.zap_limit_value = 0
    /\ lb_data.p1_l2 > lb_max_fuse
    /\ lb_available = 0

(* The charger share of a phase, times 3: the measured current, or a      *)
(* third of the limiter value when all three measure 0 and the limiter     *)
(* value is positive.                                                      *)
ChargerShare3(ch) ==
    IF /\ lb_data.ch_l1 = 0 /\ lb_data.ch_l2 = 0 /\ lb_data.ch_l3 = 0
       /\ lb_data.zap_limit_value > 0
    THEN lb_data.zap_limit_value
    ELSE 3 * ch

HouseLoad3(grid, ch) == AtLeast(0, 3 * grid - ChargerShare3(ch))

(* H, the highest house load of the three phases, times 3. *)
HighestHouseLoad3 ==
    AtLeast(HouseLoad3(lb_data.p1_l1, lb_data.ch_l1),
            AtLeast(HouseLoad3(lb_data.p1_l2, lb_data.ch_l2),
                    HouseLoad3(lb_data.p1_l3, lb_data.ch_l3)))

(* B = max(1 A, 5% of max_fuse), in 1/600 A. *)
Buffer600 == AtLeast(10 * LBScale, 3 * lb_max_fuse)

(* C15: calculate_load_balancing returns                                  *)
(* max(0, min(max_fuse, max_fuse - H - B)); phases [5,5,5], chargers       *)
(* [0,0,0], limiter 16, fuse 20 give 19; phases [18,18,18], no charger     *)
(* current and no limiter value on a 20 A fuse give less than 6.           *)
C15_LoadBalancingFormula ==
    lb_pc = "done" =>
        LET fuse == LBScale * lb_max_fuse
            rest == fuse - 20 * HighestHouseLoad3 - Buffer600
            capped == IF rest <= fuse THEN rest ELSE fuse
            all(v) == lb_data.p1_l1 = v /\ lb_data.p1_l2 = v /\ lb_data.p1_l3 = v
            no_ch == lb_data.ch_l1 = 0 /\ lb_data.ch_l2 = 0 /\ lb_data.ch_l3 = 0
        IN  /\ lb_available = AtLeast(0, capped)
            /\ (all(50) /\ no_ch /\ lb_data.zap_limit_value = 160
                    /\ lb_max_fuse = 200) => lb_available = 19 * 10 * LBScale
            /\ (all(180) /\ no_ch /\ lb_data.zap_limit_value = 0
                    /\ lb_max_fuse = 200) => lb_available < 6 * 10 * LBScale

(* C15 witness: phases [5,5,5], chargers [0,0,0], limiter 16, fuse 20:    *)
(* 19 A.                                                                   *)
C15_Witness ==
    /\ lb_pc = "done"
    /\ lb_data.p1_l1 = 50 /\ lb_data.p1_l2 = 50 /\ lb_data.p1_l3 = 50
    /\ lb_data.ch_l1 = 0 /\ lb_data.ch_l2 = 0 /\ lb_data.ch_l3 = 0
    /\ lb_data.zap_limit_value = 160 /\ lb_max_fuse = 200
    /\ lb_available = 19 * 10 * LBScale

-----------------------------------------------------------------------------
(***************************************************************************)
(* Properties of the virtual SoC estimator (specification SpecEstimator)    *)
(***************************************************************************)

(* What the latest update interval shows: the state of the SoC sensor, the *)
(* reading handed to _update_virtual_soc, the estimate before the          *)
(* interval, before and after the sync step, and after the estimate step.  *)
Update == ctl.update
Updated == Update.ran
Percent(soc) == soc * SocScale
TelemetryPresent == Update.sensor_soc # NoneVal
Telemetry == Percent(Update.sensor_soc)
SensorUnavailable == Update.soc_state = NoneVal
Adopted == Update.after_sync # Update.before_sync
Resync == Update.plug_edge \/ Adopted
InTrustWindow == /\ Update.refresh_age # NoneVal
                 /\ Update.refresh_age < TrustWindow

(* C17: over an update interval in which last_applied_state is            *)
(* "charging" and no telemetry resync happens, the virtual SoC does not    *)
(* decrease, the car-side limit and the 100% cap included.                 *)
C17_ChargingNeverDecreases ==
    (Updated /\ Update.state = "charging" /\ ~Resync) =>
        Update.after >= Update.before

(* C17 where the estimate is not above the applied car-side limit when    *)
(* the interval starts.                                                    *)
C17_ChargingNeverDecreases_WithinLimit ==
    (/\ Updated /\ Update.state = "charging" /\ ~Resync
     /\ (Update.car_limit > 0 => Update.before <= Percent(Update.car_limit)))
        => Update.after >= Update.before

C18_WitnessTrusted ==
    /\ Updated /\ InTrustWindow /\ Adopted
    /\ Update.sensor_soc = 58 /\ Update.before_sync >= Percent(82)
    /\ Update.after_sync = Percent(58)

(* C19: when the last applied state is "paused", a telemetry SoC below    *)
(* the estimate is adopted: estimate 82, telemetry 58, the estimate        *)
(* becomes 58.                                                             *)
C19_PausedAdoptsLower ==
    (/\ Updated /\ Update.state = "paused"
     /\ ~SensorUnavailable /\ Telemetry < Update.before_sync)
        => Update.after_sync = Telemetry

(* C20: unavailable currents read as 0.0, and an unavailable SoC sensor   *)
(* never overwrites or lowers a positive estimate: not in the sync step,   *)
(* not on a plug-in edge, not in the trust window.                         *)
C20_UnavailableSensor ==
    /\ get_float(NoneVal) = 0
    /\ (Updated /\ SensorUnavailable /\ Update.before > 0)
           => Update.after_sync = Update.before

(* C20 outside the trust window and not on a plug-in edge. *)
C20_UnavailableSensor_SyncOnly ==
    (/\ Updated /\ SensorUnavailable /\ Update.before > 0
     /\ ~Update.plug_edge /\ ~InTrustWindow)
        => Update.after_sync = Update.before

-----------------------------------------------------------------------------
(***************************************************************************)
(* Properties of _apply_charger_control (specification Spec)                *)
(***************************************************************************)

Cycle == ctl.cycle

(* Less than 6 A available, floored or not. *)
LowCurrent == Cycle.data.max_available_current < 10 * MinChargeAmps

MaintenancePlan ==
    Cycle.plan.charging_summary = "Target reached (80%). Maintenance mode active."

StartCalls ==
    {i \in 1..Len(Cycle.calls) :
        Cycle.calls[i].service \in {"switch.turn_on", "button.press zap_resume"}}

LimiterValues ==
    {Cycle.calls[i].value : i \in {j \in 1..Len(Cycle.calls) :
        Cycle.calls[j].service = "number.set_value zap_limit"}}

(* C2: in every control cycle with less than 6 A available (floored) and  *)
(* no maintenance mode, should_charge is forced false: the cycle neither   *)
(* switches the charger on nor writes a non-zero current limit, and the    *)
(* applied state does not become "charging" nor the applied limit          *)
(* non-zero.  In maintenance mode the charger is switched on at 0 A.       *)
C2_SafetyFloor ==
    LowCurrent =>
        IF MaintenancePlan
        THEN /\ Cycle.ran => Cycle.should_charge /\ Cycle.target_amps = 0
             /\ LimiterValues \subseteq {0}
             /\ ctl.last_applied_state = "charging"
                    => Cycle.prev_state = "charging"
        ELSE /\ Cycle.ran =>
                    /\ ~Cycle.should_charge
                    /\ Cycle.desired_state = "paused"
                    /\ Cycle.target_amps = 0
             /\ StartCalls = {}
             /\ LimiterValues \subseteq {0}
             /\ ctl.last_applied_state = "charging"
                    => Cycle.prev_state = "charging"
             /\ ctl.last_applied_amps > 0
                    => ctl.last_applied_amps = Cycle.prev_amps

(* C2 witness: the charger is charging, the plan says charge, 5.9 A are   *)
(* available: the limit is set to 0 and the charger is switched off.       *)
C2_Witness ==
    /\ Cycle.ran /\ ~MaintenancePlan
    /\ Cycle.data.should_charge_now
    /\ Cycle.data.max_available_current = 59
    /\ Cycle.prev_state = "charging" /\ Cycle.prev_amps >= MinChargeAmps
    /\ Cycle.calls = <<Call("number.set_value zap_limit", 0),
                       Call("switch.turn_off", NoneVal)>>
    /\ ctl.last_applied_state = "paused" /\ ctl.last_applied_amps = 0


-----------------------------------------------------------------------------
(***************************************************************************)
(* Claims about the session manager (SpecSession)                          *)
(***************************************************************************)

Session == sm.current_session
LastOp == sm.op.name
Returned == sm.op.ret

(* C21: the session is a two-state machine driven by plug edges.  Right    *)
(* after start_session the session is non-null with empty history and      *)
(* empty log; right after stop_session the returned report is the one      *)
(* stored as last_session_data and the session is null; and in every       *)
(* state a session is active exactly when the last edge was a plug-in.     *)
C21_SessionStateMachine ==
    /\ LastOp = "start_session" =>
          /\ Session.active
          /\ Session.history = << >>
          /\ Session.log = << >>
    /\ LastOp = "stop_session" =>
          /\ Returned.kind # "none"
          /\ Returned = sm.last_session_data
          /\ Session = NoSession
    /\ Session.active <=> sm.last_edge = "plug_in"

(* A session with recorded points was stopped, and a new one started. *)
C21_Witness ==
    /\ LastOp = "start_session"
    /\ sm.last_session_data.kind = "report"
    /\ Len(sm.last_session_data.graph_data) >= 1
    /\ Len(sm.action_log) = 3

(* A step that stops a session, and the session it stops. *)
Stops == sm'.op.name = "stop_session"
Stopped == sm.current_session
UnplugEntry == [time |-> sm.clock, message |-> "Unplugged. Session ended."]

(* The report of a session without energy: zero energy and cost with the   *)
(* session's start time, the currency asked for and the session's log.     *)
ZeroEnergyReport ==
    /\ sm'.op.ret.kind = "report"
    /\ sm'.op.ret.added_kwh = 0
    /\ sm'.op.ret.total_cost = 0
    /\ sm'.op.ret.start_time = Stopped.start_time
    /\ sm'.op.ret.currency = sm'.op.currency
    /\ sm'.op.ret.session_log = Append(Stopped.log, UnplugEntry)

C22_WitnessNoPoints ==
    /\ LastOp = "stop_session"
    /\ Returned.kind = "empty"

(* The points of the session that was stopped last. *)
Points == Returned.graph_data
Intervals == 2 .. Len(Points)

(* 3 * 230 * amps[i-1] / 1000 kW over the time between points i-1 and i,   *)
(* in units of 1/12000 kWh, and its cost at the price of point i-1.        *)
KwhOf(i) == 69 * Points[i - 1].amps * (Points[i].time - Points[i - 1].time)
CostOf(i) == KwhOf(i) * Points[i - 1].price

(* The energy and the cost of the set S of intervals. *)
RECURSIVE SumKwh(_)
SumKwh(S) ==
    IF S = {} THEN 0
    ELSE LET i == CHOOSE x \in S : TRUE
         IN  KwhOf(i) + SumKwh(S \ {i})

RECURSIVE SumCost(_)
SumCost(S) ==
    IF S = {} THEN 0
    ELSE LET i == CHOOSE x \in S : TRUE
         IN  CostOf(i) + SumCost(S \ {i})

(* The intervals that start at a point recorded as charging with positive  *)
(* amperes.                                                                *)
ChargedIntervals ==
    {i \in Intervals : Points[i - 1].charging /\ Points[i - 1].amps > 0}

TwoOrMorePoints ==
    /\ LastOp = "stop_session"
    /\ Returned.kind = "report"
    /\ Len(Points) >= 2

(* C23 as stated: for a session with two or more points, added_kwh is the  *)
(* sum over all consecutive points of the earlier point's power times the  *)
(* elapsed time, and total_cost the sum of these energies times the        *)
(* earlier point's price (both as rounded to two decimals).                *)
C23_EnergyAndCost ==
    TwoOrMorePoints =>
        /\ Returned.added_kwh = round2(SumKwh(Intervals), KwhPer100)
        /\ Returned.total_cost = round2(SumCost(Intervals), CostPer100)

(* C23: for a session with two or more points, added_kwh is the sum, over  *)
(* the consecutive points whose earlier point was recorded as charging     *)
(* with positive amperes, of the earlier point's power times the elapsed   *)
(* time, rounded to two decimals; total_cost is the sum of these energies  *)
(* times the earlier point's price, rounded to two decimals.  Intervals    *)
(* whose earlier point is not charging or has no positive amperes add      *)
(* nothing.                                                                *)
C23_EnergyAndCost_ChargedIntervals ==
    TwoOrMorePoints =>
        /\ Returned.added_kwh =
               round2(SumKwh(ChargedIntervals), KwhPer100)
        /\ Returned.total_cost =
               round2(SumCost(ChargedIntervals), CostPer100)

(* A session of three points with different amperes and prices on its two  *)
(* intervals, both counted.                                                *)
C23_Witness ==
    /\ TwoOrMorePoints
    /\ Len(Points) = 3
    /\ ChargedIntervals = Intervals
    /\ Points[1].amps # Points[2].amps
    /\ Points[1].price # Points[2].price
    /\ Returned.added_kwh > 0
    /\ Returned.total_cost > 0

(* A session with an interval that starts at a paused point which still    *)
(* carries the amperes of the last charge.                                 *)
C23_WitnessPaused ==
    /\ TwoOrMorePoints
    /\ \E i \in Intervals : ~Points[i - 1].charging /\ Points[i - 1].amps > 0

(* A step that records a data point, and the point it records. *)
Records == sm'.op.name = "record_data_point" /\ sm.current_session.active
RecordedPoint ==
    sm'.current_session.history[Len(sm'.current_session.history)]
Marker == sm.was_charging_in_interval

(* C24: a recorded data point has charging set if and only if the last     *)
(* applied state is "charging" at record time or charging was marked since *)
(* the previous recorded point, and recording a point clears the marker.   *)
(* The marker is raised by mark_charging_in_interval only and lowered only *)
(* by recording a point (or with the manager itself, at a restart).        *)
C24_ChargingFlag ==
    [][/\ Records =>
            /\ Len(sm'.current_session.history) =
                   Len(sm.current_session.history) + 1
            /\ RecordedPoint.charging <=>
                   (sm'.op.last_applied_state = "charging" \/ Marker)
            /\ ~Marker'
       /\ ~Marker /\ Marker' => sm'.op.name = "mark_charging_in_interval"
       /\ Marker /\ ~Marker' =>
            \/ Records
            \/ sm'.op.name = "load_from_dict"]_vars

(* A burst: two points recorded while paused, the first after a mark and   *)
(* set as charging, the second not.                                        *)
C24_Witness ==
    /\ LastOp = "record_data_point"
    /\ sm.op.last_applied_state = "paused"
    /\ Len(Session.history) = 2
    /\ Session.history[1].charging
    /\ Session.history[1].amps = 0
    /\ ~Session.history[2].charging

Accumulator == sm.overload_prevention_minutes

(* C25: overload_prevention_minutes is 0 right after every start_session;  *)
(* add_overload_minutes adds exactly the given minutes; no other operation *)
(* of the manager changes it, stop_session in particular.  (A restart      *)
(* replaces the manager by a new one, see C26.)                            *)
C25_OverloadAccumulator ==
    [][/\ sm'.op.name = "start_session" => Accumulator' = 0
       /\ sm'.op.name = "add_overload_minutes" =>
            /\ sm'.op.minutes > 0
            /\ Accumulator' = Accumulator + sm'.op.minutes
       /\ sm'.op.name = "stop_session" => Accumulator' = Accumulator
       /\ Accumulator' # Accumulator =>
            sm'.op.name \in {"start_session", "add_overload_minutes",
                             "load_from_dict"}]_vars

(* A session that gathered 11 minutes of overload prevention in two calls  *)
(* was stopped, and the accumulator still holds them.                      *)
C25_Witness ==
    /\ LastOp = "stop_session"
    /\ Accumulator = 22
    /\ Returned.overload_prevention_minutes = 22

(* A plug-in reset an accumulator that was not 0. *)
C25_WitnessReset ==
    /\ LastOp = "start_session"
    /\ sm.last_session_data.overload_prevention_minutes > 0

(* A step that restarts the host, and the dictionary it persisted. *)
Restarts == sm'.op.name = "load_from_dict"
Persisted == sm.op.persisted

C27_PersistenceRoundTrip ==
    [][Restarts =>
         /\ sm'.op.persisted.has_overload
         /\ sm'.op.persisted.overload_prevention_minutes = Accumulator
         /\ Accumulator' = Accumulator
         /\ sm'.op.persisted.action_log = sm.action_log
         /\ sm'.action_log = sm.action_log]_vars

-----------------------------------------------------------------------------
(***************************************************************************)
(* Claims about the coordinator's settings and cycles (SpecCoordinator)    *)
(***************************************************************************)

Flag == coord.manual_override_active
Settings == coord.user_settings
OtherKeys(key) == DOMAIN Settings \ {key}

(* A step in which the user sets a value, one in which the user clears the *)
(* override, and one in which a cycle runs the unplug handler with its two *)
(* internal set_user_input calls.                                          *)
UserSets == coord'.op.name = "set_user_input"
UserClears == coord'.op.name = "clear_manual_override"
UnplugHandled ==
    /\ coord'.op.name = "cycle"
    /\ ~coord.cycle.unplugged
    /\ coord'.cycle.unplugged

(* C28: manual_override_active becomes true exactly in a set_user_input    *)
(* call of the user with the override-target key.  A call with another     *)
(* key stores the value and leaves the flag as it is, and so do the        *)
(* internal calls of the unplug handler, which run after the handler has   *)
(* lowered the flag.  clear_manual_override lowers the flag and resets     *)
(* target_soc_override to target_soc.                                      *)
C28_ManualOverrideFlag ==
    [][/\ UserSets =>
            /\ Settings'[coord'.op.key] = coord'.op.value
            /\ \A k \in OtherKeys(coord'.op.key) : Settings'[k] = Settings[k]
            /\ Flag' <=> (Flag \/ coord'.op.key = "target_soc_override")
       /\ ~Flag /\ Flag' =>
            UserSets /\ coord'.op.key = "target_soc_override"
       /\ UnplugHandled =>
            /\ ~Flag'
            /\ Settings'["target_soc_override"] =
                   coord'.cycle.data["target_soc"]
            /\ Settings'["departure_override"] =
                   coord'.cycle.data["departure_time"]
       /\ UserClears =>
            /\ ~Flag'
            /\ Settings'["target_soc_override"] = Settings["target_soc"]
            /\ \A k \in OtherKeys("target_soc_override") :
                   Settings'[k] = Settings[k]]_vars

(* The user set the standard target to 90 and the override to 95, and then *)
(* cleared the override, which is 90 now.                                  *)
C28_Witness ==
    /\ coord.op.name = "clear_manual_override"
    /\ coord.saved.written
    /\ ~Flag
    /\ Settings["target_soc"] = 90
    /\ Settings["target_soc_override"] = 90

(* A cycle ran the unplug handler while the manual override was active. *)
C28_WitnessUnplug ==
    /\ coord.cycle.unplugged
    /\ coord.cycle.flag_at_merge
    /\ ~Flag

(* A step in which a cycle fails, and the plug state and session the cycle *)
(* found when it started.                                                  *)
CycleFails == coord'.op.name = "cycle" /\ coord'.op.failed
FoundAtStart ==
    IF coord.cycle.pc = "idle"
    THEN [previous_plugged_state |-> coord.previous_plugged_state,
          current_session |-> coord.current_session]
    ELSE coord.cycle.before

(* C29: a cycle that raises commits no state.  After the failure the       *)
(* previous plan, previous_plugged_state and the session are what they     *)
(* were when the cycle started.                                            *)
C29_FailedCycleCommitsNothing ==
    [][CycleFails =>
         /\ coord'.data = coord.data
         /\ coord'.previous_plugged_state =
                FoundAtStart.previous_plugged_state
         /\ coord'.current_session = FoundAtStart.current_session]_vars

(* A step in which a cycle that had waited for a service returns its       *)
(* result, and the flag that belongs to the data dictionary of that cycle: *)
(* the flag at the time the settings were merged, lowered if the cycle     *)
(* itself handled an unplug.                                               *)
WaitedCycleReturns ==
    /\ coord'.op.name = "cycle"
    /\ coord.cycle.pc # "idle"
    /\ coord'.cycle.pc = "idle"
    /\ ~coord'.op.failed
FlagOfCycle == coord.cycle.flag_at_merge /\ ~coord.cycle.unplugged

(* C30: control cycles never interleave with changes of the settings.  The *)
(* plan a cycle returns is made from one consistent view: the settings     *)
(* it merged together with the flag of that time, or the settings and the  *)
(* flag as they are when it returns, never the flag of one with the        *)
(* settings of the other; and each change of a setting, once the           *)
(* coordinator has data, schedules exactly one refresh.                    *)
C30_CyclesNeverInterleave ==
    [][/\ WaitedCycleReturns =>
            \/ coord'.data = planned_target(coord.cycle.data, FlagOfCycle)
            \/ coord'.data = planned_target(Settings, Flag)
       /\ (UserSets \/ UserClears) /\ coord.data.present =>
            coord'.refreshes = coord.refreshes + 1]_vars

-----------------------------------------------------------------------------
(***************************************************************************)
(* Claims about the real-time listener (SpecRealtime)                      *)
(***************************************************************************)

CallbackRuns == rt'.events = rt.events + 1
TimerFires == rt'.ev.name = "timer" /\ Len(rt'.timers) < Len(rt.timers)
Requested == rt'.refresh_requests - rt.refresh_requests

(* C31: sensor-change callbacks are debounced.  The first callback         *)
(* requests a refresh at once; a callback within the debounce window after *)
(* the previous one requests no refresh and leaves exactly one delayed     *)
(* timer pending, scheduling it if none is pending and reusing the pending *)
(* one otherwise; when the timer fires exactly one refresh is requested    *)
(* and no timer remains pending.                                           *)
C31_DebouncedRefresh ==
    [][/\ CallbackRuns /\ rt'.ev.first =>
            /\ Requested = 1
            /\ rt'.timers = <<>> /\ ~rt'.debounce_unsub
       /\ CallbackRuns /\ rt'.ev.in_window =>
            /\ Requested = 0
            /\ Len(rt'.timers) = 1 /\ rt'.debounce_unsub
            /\ rt.timers # <<>> =>
                 /\ rt'.timers = rt.timers
                 /\ rt'.timers_scheduled = rt.timers_scheduled
            /\ rt.timers = <<>> =>
                 rt'.timers_scheduled = rt.timers_scheduled + 1
       /\ TimerFires =>
            /\ Requested = 1
            /\ rt'.timers = <<>> /\ ~rt'.debounce_unsub]_vars

(* A burst of three callbacks: the first refreshed at once, the two others *)
(* shared one timer, and that timer has fired.                             *)
C31_Witness ==
    /\ rt.ev.name = "timer"
    /\ rt.events = 3
    /\ rt.timers_scheduled = 1
    /\ rt.refresh_requests = 2
    /\ rt.timers = <<>>

-----------------------------------------------------------------------------
(***************************************************************************)
(* Claims about the steps of an update interval (SpecEstimator)            *)
(***************************************************************************)

C33_PlugInClearsActuationState ==
    (Updated /\ Update.plug_edge) =>
        /\ Update.state = "none"
        /\ Update.amps = -1
        /\ ctl.previous_plugged_state

-----------------------------------------------------------------------------
(***************************************************************************)
(* Claims about the price window (SpecPlan)                                *)
(***************************************************************************)

(* Entry k (from 1) of a raw array anchored at minute base, as a slot. *)
SlotOf(arr, base, k) ==
    [start |-> base + (k - 1) * StepOf(arr),
     end |-> base + k * StepOf(arr),
     price |-> arr[k]]

(* The parsed prices hold the last count entries of arr from position      *)
(* first on.                                                               *)
HoldsTail(arr, base, first, count) ==
    \A j \in 1..count :
        calc.prices[first + j - 1] = SlotOf(arr, base, Len(arr) - count + j)

(* The raw array has an entry whose slot contains now. *)
CoversNow(arr, base) ==
    \E k \in 1..Len(arr) :
        SlotOf(arr, base, k).start <= now /\ now < SlotOf(arr, base, k).end

(* C34: an array of n prices becomes slots of 60 minutes if n <= 25 and of *)
(* 15 minutes otherwise, slot i starting at midnight of the reference date *)
(* plus i intervals; exactly the slots with end < now are dropped, so      *)
(* every retained slot has end >= now and the slot containing now is       *)
(* retained.                                                               *)
C34_PriceWindow ==
    LET today == data.price_data.today
        tomorrow == data.price_data.tomorrow
        kept_today == Cardinality(RetainedOf(today, 0))
        kept_tomorrow == Cardinality(RetainedOf(tomorrow, DayMinutes))
        parsed == calc.prices
    IN  /\ (Planned /\ calc.path = "no_future_prices") => RetainedCount = 0
        /\ (Planned /\ parsed # <<>>) =>
             /\ Len(parsed) = kept_today + kept_tomorrow
             /\ HoldsTail(today, 0, 1, kept_today)
             /\ HoldsTail(tomorrow, DayMinutes, kept_today + 1, kept_tomorrow)
             /\ \A i \in 1..Len(parsed) : parsed[i].end >= now
             /\ (CoversNow(today, 0) \/ CoversNow(tomorrow, DayMinutes)) =>
                    \E i \in 1..Len(parsed) :
                        parsed[i].start <= now /\ now < parsed[i].end

(* Quarter-hour prices at 22:00: the slot that ends at 22:00 is the first  *)
(* one retained, the earlier ones are dropped.                             *)
C34_Witness ==
    /\ Planned
    /\ Len(data.price_data.today) = 96
    /\ now = 1320
    /\ calc.prices # <<>>
    /\ calc.prices[1] = [start |-> 1305, end |-> 1320,
                         price |-> data.price_data.today[88]]
    /\ calc.prices[2].start = now

(* The plan recomputed at the minute t on the same inputs. *)
PlanAt(t) ==
    generate_charging_plan(data, config_settings, manual_override, t,
                           overload_prevention_minutes).plan

(* Later minutes: the next one, twelve minutes on. *)
LaterTimes == {now + 1, now + 12}

(* t lies in the price slot that contains now. *)
SameSlot(t) ==
    \E i \in 1..Len(calc.prices) :
        /\ calc.prices[i].start <= now /\ now < calc.prices[i].end
        /\ now < t /\ t < calc.prices[i].end

SameDeadlineAndTarget(t) ==
    /\ PlanAt(t).departure_time = plan.departure_time
    /\ PlanAt(t).planned_target_soc = plan.planned_target_soc

(* C35: re-planning is stable within a slot.  For fixed prices and         *)
(* settings and an unchanged SoC below the target, if the plan computed at *)
(* now charges, the plan recomputed at any later time inside the same      *)
(* price slot charges too.                                                 *)
C35_ReplanningStable ==
    (Planned /\ plan.should_charge_now /\ ChargingNeeded) =>
        \A t \in LaterTimes : SameSlot(t) => PlanAt(t).should_charge_now

(* C35 for later times at which the deadline and the resolved target are   *)
(* the same as at now.                                                     *)
C35_ReplanningStable_SameDeadline ==
    (Planned /\ plan.should_charge_now /\ ChargingNeeded) =>
        \A t \in LaterTimes :
            (SameSlot(t) /\ SameDeadlineAndTarget(t)) =>
                PlanAt(t).should_charge_now

(* At 22:00 the plan charges in the slot that starts now, selected among   *)
(* the cheapest; the slot that ended at 22:00 is dropped a minute later    *)
(* and the plan still charges.                                             *)
C35_Witness ==
    /\ Planned /\ plan.should_charge_now /\ ChargingNeeded
    /\ calc.path = "selection"
    /\ now = 1320
    /\ calc.prices[1].end = now
    /\ SameSlot(now + 1) /\ SameDeadlineAndTarget(now + 1)
    /\ PlanAt(now + 1).should_charge_now

-----------------------------------------------------------------------------
(***************************************************************************)
(* Claims about the commands of a control cycle (Spec, SpecUnplugged)      *)
(***************************************************************************)

(* C36: while the car is unplugged the coordinator issues no switch-on or  *)
(* resume command and records neither "charging" nor "maintenance" as the  *)
(* applied state, also in cycles whose plan summary reports maintenance    *)
(* mode.                                                                   *)
C36_UnpluggedNeverSwitchedOn ==
    (Cycle.ran /\ ~Cycle.data.car_plugged) =>
        /\ StartCalls = {}
        /\ ctl.last_applied_state \in {"charging", "maintenance"}
               => ctl.last_applied_state = Cycle.prev_state

(* The start and stop commands and the limiter writes of a cycle, by       *)
(* position, and the current the cycle commands.                           *)
SwitchCommands(c) ==
    {i \in 1..Len(c.calls) :
        c.calls[i].service \in {"switch.turn_on", "switch.turn_off",
                                "button.press zap_resume",
                                "button.press zap_stop"}}
LimiterWrites(c) ==
    {i \in 1..Len(c.calls) : c.calls[i].service = "number.set_value zap_limit"}
CommandedAmps(c) == IF c.should_charge THEN c.target_amps ELSE 0

(* The cycle that follows asks for the state and current of this one. *)
SameDemand ==
    /\ Cycle.ran /\ Cycle'.ran
    /\ Cycle'.desired_state = Cycle.desired_state
    /\ CommandedAmps(Cycle') = CommandedAmps(Cycle)

(* The commands of this cycle took effect. *)
Applied ==
    /\ ctl.last_applied_state = Cycle.desired_state
    /\ ctl.conf.zap_limit => ctl.last_applied_amps = CommandedAmps(Cycle)

(* What C37 says of every cycle: commands only on a difference, and the    *)
(* limiter before the switch when pausing.                                 *)
OnlyOnDifference ==
    Cycle'.ran =>
        /\ SwitchCommands(Cycle') # {} =>
               Cycle'.desired_state # ctl.last_applied_state
        /\ LimiterWrites(Cycle') # {} =>
               CommandedAmps(Cycle') # ctl.last_applied_amps
        /\ ~Cycle'.should_charge =>
               \A i \in LimiterWrites(Cycle') :
                   /\ Cycle'.calls[i].value = 0
                   /\ \A j \in SwitchCommands(Cycle') : i < j

C37_WitnessPausing ==
    /\ Cycle.ran
    /\ Cycle.prev_state = "charging"
    /\ Cycle.calls = <<Call("number.set_value zap_limit", 0),
                       Call("button.press zap_stop", NoneVal)>>
    /\ ctl.last_applied_state = "paused" /\ ctl.last_applied_amps = 0

(* The calls of a cycle to the car, and the calls of a set that went to    *)
(* the car, the switch or buttons, the limiter.                            *)
CarServices == {"number.set_value car_limit", "car_svc"}
SwitchServices ==
    {"switch.turn_on", "switch.turn_off",
     "button.press zap_resume", "button.press zap_stop"}
LimiterServices == {"number.set_value zap_limit"}
Made(c, services) == {c.calls[i] : i \in {j \in 1..Len(c.calls) : c.calls[j].service \in services}}
Failed(c, services) == {x \in c.failed : x.service \in services}
Succeeded(c, services) == Made(c, services) \ c.failed

AllReturn == [car |-> TRUE, switch |-> TRUE, limiter |-> TRUE]

(* The actuation state the cycle found. *)
BeforeCycle ==
    [ctl EXCEPT !.last_applied_state = Cycle.prev_state,
                !.last_applied_amps = Cycle.prev_amps,
                !.last_applied_car_limit = Cycle.prev_car_limit]

(* A call that raised leaves its tracked value as it was. *)
KeptOnFailure ==
    /\ Failed(Cycle, CarServices) # {} =>
           ctl.last_applied_car_limit = Cycle.prev_car_limit
    /\ Failed(Cycle, SwitchServices) # {} =>
           ctl.last_applied_state = Cycle.prev_state
    /\ Failed(Cycle, LimiterServices) # {} =>
           ctl.last_applied_amps = Cycle.prev_amps

(* A cycle in which a call raised makes the calls it makes when every     *)
(* call returns.                                                           *)
CycleContinues ==
    Cycle.failed # {} =>
        Cycle.calls =
            apply_charger_control(BeforeCycle, Cycle.data, Cycle.plan, AllReturn).cycle.calls

(* The calls of the cycle that follows on the same data and plan. *)
CallsOfNextCycle ==
    LET next == apply_charger_control(ctl, Cycle.data, Cycle.plan, AllReturn)
    IN  Made(next.cycle, CarServices \cup SwitchServices \cup LimiterServices)

(* A car limit call that repeated the tracked limit because charging       *)
(* starts, in a cycle after which the state is "charging".                 *)
RepeatedAtStart(x) ==
    /\ x.service \in CarServices
    /\ x.value = Cycle.prev_car_limit
    /\ ctl.last_applied_state = "charging"

(* A tracked value changes only when its call returned. *)
ChangedOnlyOnSuccess ==
    /\ ctl.last_applied_car_limit # Cycle.prev_car_limit =>
           Succeeded(Cycle, CarServices) # {}
    /\ ctl.last_applied_state # Cycle.prev_state =>
           Succeeded(Cycle, SwitchServices) # {}
    /\ ctl.last_applied_amps # Cycle.prev_amps =>
           Succeeded(Cycle, LimiterServices) # {}

-----------------------------------------------------------------------------
(***************************************************************************)
(* Claims about the unplug edge (SpecCoordinator)                          *)
(***************************************************************************)

(* A step in which a cycle returns its plan. *)
CycleReturns ==
    /\ coord'.op.name = "cycle"
    /\ coord'.cycle.pc = "idle"
    /\ ~coord'.op.failed

(* C39: on an unplug edge manual_override_active becomes false,            *)
(* target_soc_override is reset to target_soc and departure_override to    *)
(* departure_time; these internal resets never raise the flag again, so    *)
(* after an unplug the plans are made with the smart target until the user *)
(* sets the override target again.                                         *)
C39_UnplugResets ==
    [][/\ UnplugHandled =>
            /\ ~Flag'
            /\ Settings'["target_soc_override"] = Settings'["target_soc"]
            /\ Settings'["departure_override"] = Settings'["departure_time"]
       /\ ~Flag /\ Flag' =>
            UserSets /\ coord'.op.key = "target_soc_override"
       /\ CycleReturns /\ ~Flag' =>
            coord'.data.status_note = "(Smart)"]_vars

-----------------------------------------------------------------------------
(***************************************************************************)
(* Claims about the overload minutes of a session (SpecSession)            *)
(***************************************************************************)

(* The overload minutes of the active session are those of the manager. *)
SessionMinutesMatch ==
    sm.current_session.active =>
        sm.current_session.session_overload_minutes =
            sm.overload_prevention_minutes

(* stop_session has just finalized a session. *)
Finalized == sm.op.name = "stop_session" /\ sm.op.ret # NoReport

=============================================================================
